---- MODULE Spec2Model ----
(***************************************************************************)
(* Meshage: peer discovery, flood routing and the friendship protocol.     *)
(*                                                                         *)
(* A device is one installation of the app: the native module              *)
(* (MeshNetworkModule.kt), the useChatScreen hook, the usePersonalChat     *)
(* hook (while a personal chat is open) and the StorageService.  A device  *)
(* is known to the others by its endpoint id.                              *)
(*                                                                         *)
(* A message text is the sequence of its ':'-separated fields, so          *)
(* "DIRECT_MSG:B1:hi" is <<"DIRECT_MSG", "B1", "hi">>.  text.split(':') is *)
(* the sequence itself, text.startsWith("TAG:") holds when the first field *)
(* is TAG and a second field follows.  Payloads on the wire are the UTF-8  *)
(* encodings of such texts (sendMessage and forwardMessageToOthers encode  *)
(* a String); timestamps (Date.now()) are left out of every record.        *)
(*                                                                         *)
(* A handler runs to its end before the next event is handled: the storage *)
(* behind StorageService is an in-memory map, so the awaits of a handler   *)
(* resolve without waiting for anything outside the JS thread.  The        *)
(* setTimeout of handleAcceptFriendRequest and the loadUserData of         *)
(* usePersonalChat are steps of their own.  SpecAsync takes the friendship *)
(* handlers await by await instead.  What is in memory, the storage        *)
(* included, is lost when the app is closed and started again.             *)
(*                                                                         *)
(* A native callback and the JS listeners of the events it emits are one   *)
(* step: the listeners read only the event and the refs of the hook.  The  *)
(* retry timer of attemptConnection is a step of its own.  A connect       *)
(* request is a requestConnection call whose onConnectionResult has not    *)
(* arrived yet; a connection can also succeed without one, when the other  *)
(* side asked.  The status line (setStatus) is display only, no handler    *)
(* reads it, and it is left out.                                           *)
(***************************************************************************)
EXTENDS Naturals, Integers, Sequences, FiniteSets, Bags, TLC

\* ------------------------------------------------------------------ bounds
MaxNet == 2          \* payloads in flight at once
MaxMsgs == 2         \* length of a displayed message list
MaxPeerEvents == 2   \* length of the JS connectedPeers list
MaxTimers == 1       \* armed FRIEND_ACCEPT broadcast timers per device
MaxForged == 1       \* FRIEND_ACCEPT texts typed into the broadcast chat
MaxDirects == 1      \* direct messages a device sends, DIRECT_MSG texts it types
MaxRequests == 2     \* requestConnection calls awaiting their result, per endpoint
MaxAttempts == 2     \* value of a connectionAttempts counter
MaxText == 4         \* characters of an endpoint name
MaxJobs == 2         \* suspended handlers of a device

\* ------------------------------------------------------------- the devices
A == "e1"
Relay == "e2"
Bob == "e3"
Devices == {A, Relay, Bob}

\* The persistent id StorageService.getDeviceId created on each device.
PId(d) == CASE d = A -> "A1" [] d = Relay -> "R1" [] d = Bob -> "B1"
\* The username saved at onboarding.
Username(d) == CASE d = A -> "Alice" [] d = Relay -> "Rita" [] d = Bob -> "Bob"

Null == "null"       \* JS null / undefined, Kotlin null
NoId == ""           \* useState<string>('')

\* ------------------------------------------------------------------- texts
StartsWithTag(text, tag) == Len(text) >= 2 /\ text[1] = tag
Split(text) == text
SplitLimit(text, n) == SubSeq(text, 1, IF Len(text) < n THEN Len(text) ELSE n)
\* String.prototype.trim on a field: a field of spaces is empty
Trim(field) == IF field = " " THEN "" ELSE field
\* !messageText.trim()
IsBlank(text) == Len(text) = 1 /\ Trim(text[1]) = ""

FriendRequestMessage(d) == <<"FRIEND_REQUEST", PId(d), Username(d)>>
AcceptMessage(d) == <<"FRIEND_ACCEPT", PId(d), Username(d)>>
DirectMessage(friendId, messageText) == <<"DIRECT_MSG", friendId>> \o messageText

\* --------------------------------------------------------------- variables
VARIABLES
  connectedEndpoints,  \* native: connectedEndpoints, per device
  connectedPeers,      \* useChatScreen: connectedPeers state, per device
  net,                 \* payloads handed to the transport, not yet received
  messages,            \* useChatScreen: messages state (broadcast chat)
  chat,                \* usePersonalChat hook instance, per device
  friends,             \* storage: @meshage_friends
  requests,            \* storage: @meshage_friend_requests
  friendsList,         \* useChatScreen: friendsList state
  friendRequests,      \* useChatScreen: friendRequests state
  timers,              \* pending setTimeout broadcasts of FRIEND_ACCEPT
  established,         \* history: ids whose request this device saw accepted
  discoveredEndpoints, \* native: keys of discoveredEndpoints, per device
  peers,               \* useChatScreen: peers state, per device
  connectionAttempts,  \* useChatScreen: connectionAttempts ref (address -> count)
  connectionRetryTimers, \* useChatScreen: connectionRetryTimers ref (address -> timer)
  retryTimeouts,       \* JS runtime: retry timeouts set, not yet fired or cleared
  requestedConnections, \* native: requestConnection calls awaiting their result
  isConnected,         \* useChatScreen: isConnected state, per device
  storedDeviceId,      \* storage: @meshage_device_id
  storedUsername,      \* storage: @meshage_username
  deviceId,            \* useChatScreen: deviceId state, per device
  jobs,                \* per device: the async handlers suspended at an await
  deviceName,          \* the endpoint name a peer of the list advertises
  parsedPeer           \* what parseDeviceIdentifier made of deviceName

vars == <<connectedEndpoints, connectedPeers, net, messages, chat, friends,
          requests, friendsList, friendRequests, timers, established,
          discoveredEndpoints, peers, connectionAttempts, connectionRetryTimers,
          retryTimeouts,
          requestedConnections, isConnected, storedDeviceId, storedUsername,
          deviceId, jobs, deviceName, parsedPeer>>

identityVars == <<storedDeviceId, storedUsername, deviceId>>

parseVars == <<deviceName, parsedPeer>>

appVars == <<identityVars, jobs, parseVars>>

linkVars == <<discoveredEndpoints, peers, connectionAttempts, connectionRetryTimers,
              retryTimeouts,
              requestedConnections, isConnected>>

\* ----------------------------------------------------------------- storage
IsFriendNever(fs, id) == FALSE

\* StorageService.isFriend
IsFriend(fs, id) == \E i \in DOMAIN fs : fs[i].persistentId = id

\* Array.prototype.findIndex on persistentId (0 when absent)
FindIndex(rs, id) ==
  IF \E i \in DOMAIN rs : rs[i].persistentId = id
  THEN CHOOSE i \in DOMAIN rs :
         /\ rs[i].persistentId = id
         /\ \A j \in DOMAIN rs : rs[j].persistentId = id => i <= j
  ELSE 0

WithoutNone(rs, id) == rs

\* prev.filter(r => r.persistentId !== id)
WithoutId(rs, id) ==
  LET Keep(r) == r.persistentId # id IN SelectSeq(rs, Keep)

\* StorageService.addFriend: update the record in place or push it
AddFriend(fs, friend) ==
  LET existingIndex == FindIndex(fs, friend.persistentId)
  IN IF existingIndex > 0 THEN [fs EXCEPT ![existingIndex] = friend]
     ELSE Append(fs, friend)

\* StorageService.removeFriend
RemoveFriend(fs, id) == WithoutId(fs, id)

AddFriendRequestPush(rs, request) == Append(rs, request)

\* StorageService.addFriendRequest: replace the request in place or push it
AddFriendRequest(rs, request) ==
  LET existingIndex == FindIndex(rs, request.persistentId)
  IN IF existingIndex > 0 THEN [rs EXCEPT ![existingIndex] = request]
     ELSE Append(rs, request)

KeepFriendRequest(rs, id) == rs

ClearFriendRequests(rs, id) == <<>>

\* StorageService.removeFriendRequest
RemoveFriendRequest(rs, id) == WithoutId(rs, id)

Friend(id, name, address) ==
  [persistentId |-> id, displayName |-> name, deviceAddress |-> address]

FriendRequest(id, name, address, type) ==
  [persistentId |-> id, displayName |-> name, deviceAddress |-> address,
   type |-> type]

HasOutgoing(rs, id) ==
  \E i \in DOMAIN rs : rs[i].persistentId = id /\ rs[i].type = "outgoing"

\* ------------------------------------------------------------ native module
SendMessageArity == 2

ForwardToAll(d, message, senderEndpointId) ==
  {[to |-> e, text |-> message] : e \in connectedEndpoints[d]}

ForwardToNone(d, message, senderEndpointId) == {}

\* forwardMessageToOthers: one sendPayload per connected endpoint but the sender
ForwardMessageToOthers(d, message, senderEndpointId) ==
  {[to |-> e, text |-> message] :
     e \in connectedEndpoints[d] \ {senderEndpointId}}

SendToAll(d, message, targetAddress) ==
  {[to |-> e, text |-> message] : e \in connectedEndpoints[d]}

\* sendMessage(message, targetAddress): the sendPayload calls it makes
NativeSendMessage(d, message, targetAddress) ==
  IF targetAddress # Null
  THEN {[to |-> targetAddress, text |-> message]}
  ELSE {[to |-> e, text |-> message] : e \in connectedEndpoints[d]}

\* The events sendMessage emits: on a broadcast at once, for a target when the
\* sendPayload task succeeds or fails
MessageSent(message, targetAddress) ==
  [name |-> "onMessageSent", message |-> message, detail |-> targetAddress]

MessageError(error) ==
  [name |-> "onMessageError", message |-> Null, detail |-> error]

SendMessageAlwaysSent(d, message, targetAddress) ==
  {MessageSent(message, targetAddress)}

SendMessageEvents(d, message, targetAddress) ==
  IF targetAddress # Null
  THEN IF targetAddress \in connectedEndpoints[d]
       THEN {MessageSent(message, targetAddress)}
       ELSE {MessageError("e.message")}
  ELSE IF connectedEndpoints[d] = {}
       THEN {MessageError("No connected peers")}
       ELSE {MessageSent(message, Null)}

\* The bridge binds the JS arguments to the @ReactMethod parameters.  A call
\* with another number of arguments than the method declares is either
\* rejected by the bridge or bound by position, the surplus dropped.
BridgeOutcomes(args) ==
  IF Len(args) = SendMessageArity THEN {"invoked"} ELSE {"rejected", "positional"}

BridgeSendMessage(d, args, outcome) ==
  IF outcome = "rejected" THEN {}
  ELSE NativeSendMessage(d, args[1], args[2])

\* connectionsClient.sendPayload: the payload travels when the endpoint is one
\* this device is connected to, and the task fails otherwise.
Handed(d, calls) ==
  SetToBag({[src |-> d, dst |-> c.to, text |-> c.text] :
              c \in {x \in calls : x.to \in connectedEndpoints[d]}})

\* ----------------------------------------------------- JS objects and lists
\* An event map crossing the bridge is a fresh JS object; ref is its identity.
NewRef(list) ==
  IF list = <<>> THEN 1
  ELSE 1 + (CHOOSE n \in {list[i].ref : i \in DOMAIN list} :
              \A i \in DOMAIN list : list[i].ref <= n)

EventObject(list, address) == [address |-> address, ref |-> NewRef(list)]

\* [...new Set(list)]: the first occurrence of every value (SameValueZero)
RECURSIVE Dedupe(_)
Dedupe(list) ==
  IF list = <<>> THEN <<>>
  ELSE LET init == Dedupe(SubSeq(list, 1, Len(list) - 1))
           last == list[Len(list)]
       IN IF \E i \in DOMAIN init : init[i] = last THEN init
          ELSE Append(init, last)

\* prev.filter(p => p !== value)
Without(list, value) ==
  LET Keep(p) == p # value IN SelectSeq(list, Keep)

\* ------------------------------------------------- useChatScreen listeners
\* onPeerConnected listener: the listener takes the event itself as the
\* address, and the native module emits the map {address: endpointId}.
OnPeerConnected(list, endpointId) ==
  LET address == EventObject(list, endpointId)
  IN Dedupe(Append(list, address))

\* onPeerDisconnected listener
OnPeerDisconnected(list, endpointId) ==
  LET address == EventObject(list, endpointId)
  IN Without(list, address)

\* The endpoint a connectedPeers entry stands for.
EndpointOf(p) == p.address

BroadcastMessage(data) ==
  [text |-> data.message, fromAddress |-> data.fromAddress, isSent |-> FALSE]

\* message.startsWith('FRIEND_ACCEPT:') with three fields
IsAccept(text) == StartsWithTag(text, "FRIEND_ACCEPT") /\ Len(Split(text)) = 3

IsRequestAtLeast(text) == StartsWithTag(text, "FRIEND_REQUEST") /\ Len(Split(text)) >= 3

\* message.startsWith('FRIEND_REQUEST:') with three fields
IsRequest(text) == StartsWithTag(text, "FRIEND_REQUEST") /\ Len(Split(text)) = 3

IsBroadcastText(text) ==
  /\ ~StartsWithTag(text, "FRIEND_REQUEST")
  /\ ~StartsWithTag(text, "FRIEND_ACCEPT")
  /\ ~StartsWithTag(text, "DIRECT_MSG")

AcceptFriendPush(fs, friend) == Append(fs, friend)

\* FRIEND_ACCEPT branch, storage: return when isFriend, else addFriend
AcceptFriend(fs, friend) ==
  IF IsFriend(fs, friend.persistentId) THEN fs ELSE AddFriend(fs, friend)

\* onMessageReceived listener of useChatScreen, on device d
ChatScreenReceives(d, data) ==
  LET parts == Split(data.message)
      id == parts[2]
      friendRequest == FriendRequest(id, parts[3], data.fromAddress, "incoming")
      friend == Friend(id, parts[3], data.fromAddress)
  IN IF IsRequest(data.message)
     THEN IF IsFriend(friends[d], id)
          THEN UNCHANGED <<friends, requests, friendsList, friendRequests, messages,
                           established>>
          ELSE /\ requests' = [requests EXCEPT ![d] = AddFriendRequest(@, friendRequest)]
               /\ friendRequests' =
                    [friendRequests EXCEPT ![d] = Append(WithoutId(@, id), friendRequest)]
               /\ UNCHANGED <<friends, friendsList, messages, established>>
     ELSE IF IsAccept(data.message)
     THEN /\ friends' = [friends EXCEPT ![d] = AcceptFriend(@, friend)]
          /\ IF IsFriend(friends[d], id)
             THEN UNCHANGED <<requests, friendsList, friendRequests, established>>
             ELSE /\ friendsList' = [friendsList EXCEPT ![d] = @ \cup {id}]
                  /\ requests' = [requests EXCEPT ![d] = RemoveFriendRequest(@, id)]
                  /\ friendRequests' = [friendRequests EXCEPT ![d] = WithoutId(@, id)]
                  /\ established' =
                       [established EXCEPT
                          ![d] = IF HasOutgoing(requests[d], id) THEN @ \cup {id} ELSE @]
          /\ UNCHANGED messages
     ELSE IF IsBroadcastText(data.message)
     THEN /\ messages' = [messages EXCEPT ![d] = Append(@, BroadcastMessage(data))]
          /\ UNCHANGED <<friends, requests, friendsList, friendRequests, established>>
     ELSE UNCHANGED <<friends, requests, friendsList, friendRequests, messages,
                      established>>

\* ----------------------------------------------- usePersonalChat listeners
ClosedChat ==
  [open |-> FALSE, friendId |-> NoId, friendName |-> "", myPersistentId |-> NoId,
   myUsername |-> "User", messages |-> <<>>]

\* StorageService.getPersistentId: the persistent id of this installation
GetPersistentId(d) == PId(d)

\* targetPersistentId === myPersistentId
MeantForMe(targetPersistentId, myPersistentId) ==
  targetPersistentId = myPersistentId

\* onMessageReceived listener of usePersonalChat: the hook's next state
PersonalChatReceives(c, data) ==
  LET parts == SplitLimit(data.message, 3)
  IN IF /\ c.open
        /\ StartsWithTag(data.message, "DIRECT_MSG")
        /\ Len(parts) = 3
        /\ MeantForMe(parts[2], c.myPersistentId)
     THEN [c EXCEPT !.messages =
             Append(@, [text |-> <<parts[3]>>, fromAddress |-> data.fromAddress,
                        senderName |-> c.friendName, isSent |-> FALSE,
                        raw |-> data.message])]
     ELSE c

\* ------------------------------------------------------------------ actions
\* ------------------------------------------------ discovery and connecting
NoAttempts == [e \in Devices |-> 0]        \* new Map(): get(address) || 0
NoTimers == [e \in Devices |-> "none"]     \* new Map(): no timer stored
NoRequests == [e \in Devices |-> 0]
NoTimeouts == [e \in Devices |-> 0]       \* no retry timeout is pending

\* updatePeersList: one entry per discovered endpoint, status 0 = Connected,
\* 3 = Available
UpdatePeersList(discovered, connected) ==
  {[deviceAddress |-> id, status |-> IF id \in connected THEN 0 ELSE 3] :
     id \in discovered}

\* The useEffect that defines attemptConnection and the listeners has the
\* dependency list [], so they read the connectedPeers and peers of the first
\* render: the initial values of the two useState calls.
ClosureConnectedPeers == <<>>
ClosurePeers == {}

Includes(list, value) == \E i \in DOMAIN list : list[i] = value

\* A Map key as a listener holds it: the deviceAddress string of an event, or
\* the event object itself.
StringKey(address) == [type |-> "string", address |-> address]
EventKey(address) == [type |-> "object", address |-> address]

\* map.get(key): the keys stored are deviceAddress strings
MapGet(map, key, undefined) ==
  IF key.type = "string" THEN map[key.address] ELSE undefined

\* map.delete(key)
MapDelete(map, key, undefined) ==
  IF key.type = "string" THEN [map EXCEPT ![key.address] = undefined] ELSE map

\* const timer = map.get(address); if (timer) { clearTimeout(timer);
\* map.delete(address) }
ClearRetryTimer(map, key) ==
  IF MapGet(map, key, "none") # "none" THEN MapDelete(map, key, "none") ELSE map

\* clearTimeout(timer) of the timer the map holds for address: it ends the
\* timeout when that is still pending, and does nothing to one that has fired
ClearTimeout(timeouts, map, address) ==
  IF map[address] = "armed" THEN [timeouts EXCEPT ![address] = @ - 1] ELSE timeouts

\* The pending timeouts after ClearRetryTimer(map, key)
ClearRetryTimeout(timeouts, map, key) ==
  IF key.type = "string" THEN ClearTimeout(timeouts, map, key.address) ELSE timeouts

\* connectionAttempts.current.delete(address)
ResetAttempts(map, key) == MapDelete(map, key, 0)

\* The peers of an onPeersFound event that the listener hands to
\* attemptConnection, and that attemptConnection then connects to.
AttemptTargets(event) ==
  {p.deviceAddress :
     p \in {q \in event : /\ q.status = 3
                          /\ ~Includes(ClosureConnectedPeers, q.deviceAddress)}}

\* attemptConnection for every peer of targets:
\* MeshNetwork.connectToPeer, one more attempt counted, the timer replaced
ConnectToPeer(requested, targets) ==
  [e \in Devices |-> IF e \in targets THEN requested[e] + 1 ELSE requested[e]]

CountAttempt(attempts, targets) ==
  [e \in Devices |-> IF e \in targets THEN attempts[e] + 1 ELSE attempts[e]]

ArmRetryTimer(retryTimers, targets) ==
  [e \in Devices |-> IF e \in targets THEN "armed" ELSE retryTimers[e]]

AddTimeout(timeouts, retryTimers, targets) ==
  [e \in Devices |-> IF e \in targets THEN timeouts[e] + 1 ELSE timeouts[e]]

\* if (existingTimer) clearTimeout(existingTimer); setTimeout(..., 5000)
ReplaceTimeout(timeouts, retryTimers, targets) ==
  [e \in Devices |->
     IF e \in targets THEN ClearTimeout(timeouts, retryTimers, e)[e] + 1
     ELSE timeouts[e]]

\* The test of the retry timer's callback
RetryAlways(address) == TRUE

RetryCondition(address) ==
  /\ ~Includes(ClosureConnectedPeers, address)
  /\ \E p \in ClosurePeers : p.deviceAddress = address /\ p.status = 3

\* onPeersFound listener on device d, the refs being requested, attempts and
\* retryTimers, and the pending timeouts being timeouts, when the event arrives
OnPeersFound(d, event, requested, attempts, retryTimers, timeouts) ==
  LET targets == AttemptTargets(event)
  IN /\ peers' = [peers EXCEPT ![d] = event]
     /\ requestedConnections' =
          [requestedConnections EXCEPT ![d] = ConnectToPeer(requested, targets)]
     /\ connectionAttempts' =
          [connectionAttempts EXCEPT ![d] = CountAttempt(attempts, targets)]
     /\ connectionRetryTimers' =
          [connectionRetryTimers EXCEPT ![d] = ArmRetryTimer(retryTimers, targets)]
     /\ retryTimeouts' =
          [retryTimeouts EXCEPT ![d] = ReplaceTimeout(timeouts, retryTimers, targets)]

\* result.status.statusCode of a failed connection
StatusCodes == {1, 3, 13, 8001, 8002, 8004}

\* onConnectionError listener: what it leaves of the timer and the attempt
\* counter of error.deviceAddress
ErrorKeepsTimer(retryTimers, error) ==
  IF error.reasonCode = 3
  THEN ClearRetryTimer(retryTimers, StringKey(error.deviceAddress))
  ELSE retryTimers

ErrorKeepsTimeout(timeouts, retryTimers, error) ==
  IF error.reasonCode = 3
  THEN ClearRetryTimeout(timeouts, retryTimers, StringKey(error.deviceAddress))
  ELSE timeouts

ErrorKeepsAttempts(attempts, error) ==
  IF error.reasonCode = 3
  THEN ResetAttempts(attempts, StringKey(error.deviceAddress))
  ELSE attempts

friendVars == <<friends, requests, friendsList, friendRequests, timers, established>>

Data(m) == [message |-> m.text, fromAddress |-> m.src]

\* connectionLifecycleCallback.onConnectionResult on a failure: the
\* onConnectionError event and its listener
ConnectionFailed(d, endpointId, statusCode) ==
  LET error == [deviceAddress |-> endpointId, reasonCode |-> statusCode]
  IN /\ endpointId # d
     /\ requestedConnections' = [requestedConnections EXCEPT ![d][endpointId] = 0]
     /\ connectionRetryTimers' =
          [connectionRetryTimers EXCEPT ![d] = ErrorKeepsTimer(@, error)]
     /\ retryTimeouts' =
          [retryTimeouts EXCEPT
             ![d] = ErrorKeepsTimeout(@, connectionRetryTimers[d], error)]
     /\ connectionAttempts' =
          [connectionAttempts EXCEPT ![d] = ErrorKeepsAttempts(@, error)]
     /\ UNCHANGED appVars
     /\ UNCHANGED <<connectedEndpoints, connectedPeers, isConnected, peers,
                    discoveredEndpoints, net, messages, chat, friendVars>>

\* connectionLifecycleCallback.onConnectionResult on a success: the
\* onConnectionChanged, onPeerConnected and onPeersFound events and their
\* listeners
ConnectionSucceeded(d, endpointId) ==
  LET connected == connectedEndpoints[d] \cup {endpointId}
      address == EventKey(endpointId)
  IN /\ endpointId # d
     /\ connectedEndpoints' = [connectedEndpoints EXCEPT ![d] = connected]
     /\ isConnected' = [isConnected EXCEPT ![d] = TRUE]
     /\ connectedPeers' = [connectedPeers EXCEPT ![d] = OnPeerConnected(@, endpointId)]
     /\ OnPeersFound(d, UpdatePeersList(discoveredEndpoints[d], connected),
                     [requestedConnections[d] EXCEPT ![endpointId] = 0],
                     ResetAttempts(connectionAttempts[d], address),
                     ClearRetryTimer(connectionRetryTimers[d], address),
                     ClearRetryTimeout(retryTimeouts[d], connectionRetryTimers[d],
                                       address))
     /\ UNCHANGED appVars
     /\ UNCHANGED <<discoveredEndpoints, net, messages, chat, friendVars>>

\* connectionLifecycleCallback.onConnectionResult, with the JS listeners of
\* the events it emits
OnConnectionResult(d, endpointId, success) ==
  IF success
  THEN ConnectionSucceeded(d, endpointId)
  ELSE \E statusCode \in StatusCodes : ConnectionFailed(d, endpointId, statusCode)

\* connectionLifecycleCallback.onDisconnected
OnDisconnected(d, endpointId) ==
  LET connected == connectedEndpoints[d] \ {endpointId}
  IN /\ endpointId \in connectedEndpoints[d]
     /\ connectedEndpoints' = [connectedEndpoints EXCEPT ![d] = connected]
     /\ connectedPeers' = [connectedPeers EXCEPT ![d] = OnPeerDisconnected(@, endpointId)]
     /\ OnPeersFound(d, UpdatePeersList(discoveredEndpoints[d], connected),
                     requestedConnections[d], connectionAttempts[d],
                     connectionRetryTimers[d], retryTimeouts[d])
     /\ UNCHANGED appVars
     /\ UNCHANGED <<discoveredEndpoints, isConnected, net, messages, chat, friendVars>>

\* endpointDiscoveryCallback.onEndpointFound
OnEndpointFound(d, endpointId) ==
  LET discovered == discoveredEndpoints[d] \cup {endpointId}
  IN /\ endpointId # d
     /\ discoveredEndpoints' = [discoveredEndpoints EXCEPT ![d] = discovered]
     /\ OnPeersFound(d, UpdatePeersList(discovered, connectedEndpoints[d]),
                     requestedConnections[d], connectionAttempts[d],
                     connectionRetryTimers[d], retryTimeouts[d])
     /\ UNCHANGED appVars
     /\ UNCHANGED <<connectedEndpoints, connectedPeers, isConnected, net, messages,
                    chat, friendVars>>

\* endpointDiscoveryCallback.onEndpointLost
OnEndpointLost(d, endpointId) ==
  LET discovered == discoveredEndpoints[d] \ {endpointId}
  IN /\ endpointId \in discoveredEndpoints[d]
     /\ discoveredEndpoints' = [discoveredEndpoints EXCEPT ![d] = discovered]
     /\ OnPeersFound(d, UpdatePeersList(discovered, connectedEndpoints[d]),
                     requestedConnections[d], connectionAttempts[d],
                     connectionRetryTimers[d], retryTimeouts[d])
     /\ UNCHANGED appVars
     /\ UNCHANGED <<connectedEndpoints, connectedPeers, isConnected, net, messages,
                    chat, friendVars>>

\* The callback of the retry timer that attemptConnection armed for address
RetryTimerFires(d, address) ==
  LET peer == [deviceAddress |-> address, status |-> 3]
      targets == IF RetryCondition(address) THEN AttemptTargets({peer}) ELSE {}
      fired == [connectionRetryTimers[d] EXCEPT ![address] = "fired"]
  IN /\ connectionRetryTimers[d][address] = "armed"
     /\ requestedConnections' =
          [requestedConnections EXCEPT ![d] = ConnectToPeer(@, targets)]
     /\ connectionAttempts' =
          [connectionAttempts EXCEPT ![d] = CountAttempt(@, targets)]
     /\ connectionRetryTimers' =
          [connectionRetryTimers EXCEPT ![d] = ArmRetryTimer(fired, targets)]
     /\ retryTimeouts' =
          [retryTimeouts EXCEPT
             ![d] = ReplaceTimeout([@ EXCEPT ![address] = @ - 1], fired, targets)]
     /\ UNCHANGED appVars
     /\ UNCHANGED <<connectedEndpoints, connectedPeers, isConnected, peers,
                    discoveredEndpoints, net, messages, chat, friendVars>>

\* connectToPeer's failure listener: the request did not go out, the
\* onConnectionError event carries reasonCode 1
RequestConnectionFails(d, peerAddress) ==
  LET error == [deviceAddress |-> peerAddress, reasonCode |-> 1]
  IN /\ requestedConnections[d][peerAddress] > 0
     /\ requestedConnections' = [requestedConnections EXCEPT ![d][peerAddress] = @ - 1]
     /\ connectionRetryTimers' =
          [connectionRetryTimers EXCEPT ![d] = ErrorKeepsTimer(@, error)]
     /\ retryTimeouts' =
          [retryTimeouts EXCEPT
             ![d] = ErrorKeepsTimeout(@, connectionRetryTimers[d], error)]
     /\ connectionAttempts' =
          [connectionAttempts EXCEPT ![d] = ErrorKeepsAttempts(@, error)]
     /\ UNCHANGED appVars
     /\ UNCHANGED <<connectedEndpoints, connectedPeers, isConnected, peers,
                    discoveredEndpoints, net, messages, chat, friendVars>>

\* handleConnectToPeer: the Connect button of a listed peer
HandleConnectToPeer(d, deviceAddress) ==
  /\ deviceAddress # d
  /\ requestedConnections' =
       [requestedConnections EXCEPT ![d] = ConnectToPeer(@, {deviceAddress})]
  /\ UNCHANGED appVars
  /\ UNCHANGED <<connectedEndpoints, connectedPeers, isConnected, peers,
                 discoveredEndpoints, connectionAttempts, connectionRetryTimers,
                 retryTimeouts,
                 net, messages, chat, friendVars>>

DisconnectForgetsFriends(d) ==
  /\ connectedEndpoints' = [connectedEndpoints EXCEPT ![d] = {}]
  /\ discoveredEndpoints' = [discoveredEndpoints EXCEPT ![d] = {}]
  /\ requestedConnections' = [requestedConnections EXCEPT ![d] = NoRequests]
  /\ messages' = [messages EXCEPT ![d] = <<>>]
  /\ friends' = [friends EXCEPT ![d] = <<>>]
  /\ UNCHANGED appVars
  /\ UNCHANGED <<connectedPeers, isConnected, peers, connectionAttempts,
                 connectionRetryTimers, retryTimeouts, net, chat, requests, friendsList,
                 friendRequests, timers, established>>

\* handleDisconnect: MeshNetwork.disconnect(), setMessages([])
HandleDisconnect(d) ==
  /\ connectedEndpoints' = [connectedEndpoints EXCEPT ![d] = {}]
  /\ discoveredEndpoints' = [discoveredEndpoints EXCEPT ![d] = {}]
  /\ requestedConnections' = [requestedConnections EXCEPT ![d] = NoRequests]
  /\ messages' = [messages EXCEPT ![d] = <<>>]
  /\ UNCHANGED appVars
  /\ UNCHANGED <<connectedPeers, isConnected, peers, connectionAttempts,
                 connectionRetryTimers, retryTimeouts, net, chat, friendVars>>

\* useChatScreen.handleSendMessage: the text goes out as typed, to everyone
HandleSendMessage(d, messageText) ==
  /\ ~IsBlank(messageText)
  /\ \E outcome \in BridgeOutcomes(<<messageText, Null>>) :
       LET calls == BridgeSendMessage(d, <<messageText, Null>>, outcome)
       IN /\ net' = net (+) Handed(d, calls)
  /\ messages' = [messages EXCEPT
                    ![d] = Append(@, [text |-> messageText,
                                      fromAddress |-> Username(d), isSent |-> TRUE])]
  /\ UNCHANGED appVars
  /\ UNCHANGED <<linkVars, connectedEndpoints, connectedPeers, chat, friendVars>>

\* payloadCallback.onPayloadReceived on device m.dst, with the JS listeners
\* of the onMessageReceived event it emits
OnPayloadReceived(m) ==
  /\ BagIn(m, net)
  /\ LET d == m.dst
         calls == ForwardMessageToOthers(d, m.text, m.src)
     IN /\ net' = (net (-) SetToBag({m})) (+) Handed(d, calls)
        /\ ChatScreenReceives(d, Data(m))
        /\ chat' = [chat EXCEPT ![d] = PersonalChatReceives(@, Data(m))]
  /\ UNCHANGED appVars
  /\ UNCHANGED <<linkVars, connectedEndpoints, connectedPeers, timers>>

\* The transport fails to deliver a payload (the connection broke).
LosePayload(m) ==
  /\ BagIn(m, net)
  /\ net' = net (-) SetToBag({m})
  /\ UNCHANGED appVars
  /\ UNCHANGED <<linkVars, connectedEndpoints, connectedPeers, messages, chat, friendVars>>

\* FriendsScreen -> PersonalChat: the hook mounts for a stored friend
OpenPersonalChat(d, i) ==
  /\ ~chat[d].open
  /\ i \in DOMAIN friends[d]
  /\ chat' = [chat EXCEPT ![d] = [ClosedChat EXCEPT
                                    !.open = TRUE,
                                    !.friendId = friends[d][i].persistentId,
                                    !.friendName = friends[d][i].displayName]]
  /\ UNCHANGED appVars
  /\ UNCHANGED <<linkVars, connectedEndpoints, connectedPeers, net, messages, friendVars>>

\* usePersonalChat.loadUserData resolves
LoadUserData(d) ==
  /\ chat[d].open
  /\ chat[d].myPersistentId = NoId
  /\ chat' = [chat EXCEPT ![d].myPersistentId = GetPersistentId(d),
                          ![d].myUsername = Username(d)]
  /\ UNCHANGED appVars
  /\ UNCHANGED <<linkVars, connectedEndpoints, connectedPeers, net, messages, friendVars>>

\* usePersonalChat.handleSendMessage
PersonalSendMessage(d, messageText) ==
  /\ chat[d].open
  /\ ~IsBlank(messageText)
  /\ LET directMessage == DirectMessage(chat[d].friendId, messageText)
         args == <<directMessage, chat[d].myUsername, Null>>
     IN /\ chat' = [chat EXCEPT ![d].messages =
                      Append(@, [text |-> messageText, fromAddress |-> "me",
                                 senderName |-> chat[d].myUsername, isSent |-> TRUE,
                                 raw |-> directMessage])]
        /\ \E outcome \in BridgeOutcomes(args) :
             LET calls == BridgeSendMessage(d, args, outcome)
             IN /\ net' = net (+) Handed(d, calls)
  /\ UNCHANGED appVars
  /\ UNCHANGED <<linkVars, connectedEndpoints, connectedPeers, messages, friendVars>>

\* The entry of the peer list for endpoint e: parseDeviceIdentifier of the
\* name "username|deviceId" the device advertises.
Peer(e) == [deviceAddress |-> e, persistentId |-> PId(e), displayName |-> Username(e)]

\* useChatScreen.handleAddFriend
HandleAddFriend(d, e) ==
  /\ e # d
  /\ LET peer == Peer(e)
         request == FriendRequest(peer.persistentId, peer.displayName,
                                  peer.deviceAddress, "outgoing")
         calls == BridgeSendMessage(d, <<FriendRequestMessage(d), peer.deviceAddress>>,
                                    "invoked")
     IN /\ net' = net (+) Handed(d, calls)
        /\ requests' = [requests EXCEPT ![d] = AddFriendRequest(@, request)]
        /\ friendRequests' =
             [friendRequests EXCEPT
                ![d] = Append(WithoutId(@, peer.persistentId), request)]
        /\ requestedConnections' =
             [requestedConnections EXCEPT ![d] = ConnectToPeer(@, {peer.deviceAddress})]
  /\ UNCHANGED appVars
  /\ UNCHANGED <<connectedEndpoints, connectedPeers, messages, chat, friends,
                 friendsList, timers, established, discoveredEndpoints, peers,
                 connectionAttempts, connectionRetryTimers, retryTimeouts, isConnected>>

\* useChatScreen.handleAcceptFriendRequest on the i-th listed request
HandleAcceptFriendRequest(d, i) ==
  /\ i \in DOMAIN friendRequests[d]
  /\ friendRequests[d][i].type = "incoming"
  /\ LET request == friendRequests[d][i]
         id == request.persistentId
         calls == BridgeSendMessage(d, <<AcceptMessage(d), request.deviceAddress>>,
                                    "invoked")
     IN /\ friends' = [friends EXCEPT
                         ![d] = AddFriend(@, Friend(id, request.displayName,
                                                    request.deviceAddress))]
        /\ friendsList' = [friendsList EXCEPT ![d] = @ \cup {id}]
        /\ requests' = [requests EXCEPT ![d] = RemoveFriendRequest(@, id)]
        /\ friendRequests' = [friendRequests EXCEPT ![d] = WithoutId(@, id)]
        /\ net' = net (+) Handed(d, calls)
        /\ timers' = [timers EXCEPT ![d] = @ + 1]
        /\ established' = [established EXCEPT ![d] = @ \cup {id}]
  /\ UNCHANGED appVars
  /\ UNCHANGED <<linkVars, connectedEndpoints, connectedPeers, messages, chat>>

\* The setTimeout of handleAcceptFriendRequest fires: the broadcast copy
AcceptBroadcastTimer(d) ==
  /\ timers[d] > 0
  /\ timers' = [timers EXCEPT ![d] = @ - 1]
  /\ LET calls == BridgeSendMessage(d, <<AcceptMessage(d), Null>>, "invoked")
     IN /\ net' = net (+) Handed(d, calls)
  /\ UNCHANGED appVars
  /\ UNCHANGED <<linkVars, connectedEndpoints, connectedPeers, messages, chat, friends,
                 requests, friendsList, friendRequests, established>>

\* useChatScreen.handleRejectFriendRequest on the i-th listed request
HandleRejectFriendRequest(d, i) ==
  /\ i \in DOMAIN friendRequests[d]
  /\ friendRequests[d][i].type = "incoming"
  /\ LET id == friendRequests[d][i].persistentId
     IN /\ requests' = [requests EXCEPT ![d] = RemoveFriendRequest(@, id)]
        /\ friendRequests' = [friendRequests EXCEPT ![d] = WithoutId(@, id)]
  /\ UNCHANGED appVars
  /\ UNCHANGED <<linkVars, connectedEndpoints, connectedPeers, net, messages, chat, friends,
                 friendsList, timers, established>>

\* FriendsScreen.handleRemoveFriend on the i-th stored friend
HandleRemoveFriend(d, i) ==
  /\ i \in DOMAIN friends[d]
  /\ friends' = [friends EXCEPT ![d] = RemoveFriend(@, friends[d][i].persistentId)]
  /\ UNCHANGED appVars
  /\ UNCHANGED <<linkVars, connectedEndpoints, connectedPeers, net, messages, chat, requests,
                 friendsList, friendRequests, timers, established>>

\* ------------------------------------------------------- device identifier
\* An endpoint name is the sequence of its characters; 'User' counts as one.
Chars == {"a", "b", "|"}
User == <<"User">>

Texts(n) == UNION {[1..k -> Chars] : k \in 0..n}

HasDelimiter(text) == \E i \in DOMAIN text : text[i] = "|"

FirstDelimiter(text) ==
  CHOOSE i \in DOMAIN text : text[i] = "|" /\ \A j \in 1..(i - 1) : text[j] # "|"

\* deviceName.split('|'): the texts between the delimiters, all of them
RECURSIVE SplitDeviceName(_)
SplitDeviceName(text) ==
  IF HasDelimiter(text)
  THEN LET i == FirstDelimiter(text)
       IN <<SubSeq(text, 1, i - 1)>> \o SplitDeviceName(SubSeq(text, i + 1, Len(text)))
  ELSE <<text>>

\* persistentId is a string or undefined: a sequence of one text or of none
Undefined == <<>>
Defined(text) == <<text>>

ParseWhole(name) == [displayName |-> name, persistentId |-> Undefined]

\* parseDeviceIdentifier
ParseDeviceIdentifier(name) ==
  LET parts == SplitDeviceName(name)
  IN IF Len(parts) = 2
     THEN [displayName |-> parts[1], persistentId |-> Defined(parts[2])]
     ELSE [displayName |-> name, persistentId |-> Undefined]

\* initializeApp: the device identifier "username|deviceId" it advertises
DeviceIdentifier(savedUsername, savedDeviceId) ==
  IF savedUsername # <<>>
  THEN savedUsername \o <<"|">> \o savedDeviceId
  ELSE User \o <<"|">> \o savedDeviceId

\* What belongs to the mesh session, the chats and the friendships.
sessionVars == <<connectedEndpoints, connectedPeers, net, messages, chat, friends,
                 requests, friendsList, friendRequests, timers, established, linkVars>>

\* A device of the app starts advertising: MeshNetwork.setDeviceName with the
\* identifier initializeApp built
SetDeviceName(savedUsername, savedDeviceId) ==
  /\ deviceName' = DeviceIdentifier(savedUsername, savedDeviceId)
  /\ parsedPeer' = <<>>
  /\ UNCHANGED <<sessionVars, identityVars, jobs>>

\* onEndpointFound for an endpoint of any name (info.endpointName)
EndpointNamed(name) ==
  /\ deviceName' = name
  /\ parsedPeer' = <<>>
  /\ UNCHANGED <<sessionVars, identityVars, jobs>>

\* The onPeersFound listener maps the peer: parseDeviceIdentifier(peer.deviceName)
ParsePeer ==
  /\ parsedPeer = <<>>
  /\ parsedPeer' = <<ParseDeviceIdentifier(deviceName)>>
  /\ UNCHANGED <<sessionVars, identityVars, jobs, deviceName>>

\* ---------------------------------------------------------------- identity
\* The UUIDs generateDeviceId may return on a later call.
GeneratedIds == {"N1", "N2"}

\* The names the user may enter on the onboarding screen.
Usernames == {"Alice", "Al"}

\* StorageService.getDeviceId: the stored id, or a generated one that it
\* stores (the in-memory storage never throws, so the catch is never taken)
GetDeviceId(stored, generated) == IF stored = Null THEN generated ELSE stored

\* initializeApp of useChatScreen, when the hook mounts
InitializeApp(d) ==
  /\ deviceId[d] = NoId
  /\ \E generated \in GeneratedIds :
       LET savedDeviceId == GetDeviceId(storedDeviceId[d], generated)
       IN /\ storedDeviceId' = [storedDeviceId EXCEPT ![d] = savedDeviceId]
          /\ deviceId' = [deviceId EXCEPT ![d] = savedDeviceId]
  /\ friendsList' =
       [friendsList EXCEPT ![d] = {friends[d][i].persistentId : i \in DOMAIN friends[d]}]
  /\ friendRequests' = [friendRequests EXCEPT ![d] = requests[d]]
  /\ UNCHANGED <<connectedEndpoints, connectedPeers, net, messages, chat, friends,
                 requests, timers, established, linkVars, storedUsername, jobs,
                 parseVars>>

\* Onboarding.handleConnect: StorageService.saveUsername
SaveUsername(d, name) ==
  /\ storedUsername' = [storedUsername EXCEPT ![d] = name]
  /\ UNCHANGED <<sessionVars, storedDeviceId, deviceId, jobs, parseVars>>

\* The app of device d, connected to nobody, is closed and started again:
\* the module is loaded anew, with a new InMemoryStorage and unmounted hooks.
Restart(d) ==
  /\ connectedEndpoints[d] = {}
  /\ \A e \in Devices : d \notin connectedEndpoints[e]
  /\ storedDeviceId' = [storedDeviceId EXCEPT ![d] = Null]
  /\ storedUsername' = [storedUsername EXCEPT ![d] = Null]
  /\ friends' = [friends EXCEPT ![d] = <<>>]
  /\ requests' = [requests EXCEPT ![d] = <<>>]
  /\ deviceId' = [deviceId EXCEPT ![d] = NoId]
  /\ friendsList' = [friendsList EXCEPT ![d] = {}]
  /\ friendRequests' = [friendRequests EXCEPT ![d] = <<>>]
  /\ messages' = [messages EXCEPT ![d] = <<>>]
  /\ connectedPeers' = [connectedPeers EXCEPT ![d] = <<>>]
  /\ chat' = [chat EXCEPT ![d] = ClosedChat]
  /\ timers' = [timers EXCEPT ![d] = 0]
  /\ jobs' = [jobs EXCEPT ![d] = <<>>]
  /\ discoveredEndpoints' = [discoveredEndpoints EXCEPT ![d] = {}]
  /\ peers' = [peers EXCEPT ![d] = {}]
  /\ connectionAttempts' = [connectionAttempts EXCEPT ![d] = NoAttempts]
  /\ connectionRetryTimers' = [connectionRetryTimers EXCEPT ![d] = NoTimers]
  /\ retryTimeouts' = [retryTimeouts EXCEPT ![d] = NoTimeouts]
  /\ requestedConnections' = [requestedConnections EXCEPT ![d] = NoRequests]
  /\ isConnected' = [isConnected EXCEPT ![d] = FALSE]
  /\ UNCHANGED <<connectedEndpoints, net, established, parseVars>>

\* connectionLifecycleCallback.onConnectionInitiated: the connection is
\* accepted; no JS listener is registered for the event
OnConnectionInitiated(d, endpointId) ==
  /\ endpointId # d
  /\ UNCHANGED vars

\* ------------------------------------------------- handlers, await by await
\* A friendship handler is an async function: it runs up to its first await
\* when its event is dispatched and is resumed, once per await, by a promise
\* job.  Every await of these handlers waits for a StorageService call, and
\* a StorageService call reads the table when it is called and writes it
\* when it is resumed.  A suspended handler is the list of the calls it has
\* still to make, with what its current call has read.
Call(kind, handler, id, name, address) ==
  [kind |-> kind, handler |-> handler, id |-> id, name |-> name, address |-> address]

Suspended(todo) == [todo |-> todo, read |-> FALSE, snap |-> <<>>]

\* FRIEND_REQUEST branch of the listener: isFriend, addFriendRequest
RequestReceipt(data) ==
  LET parts == Split(data.message)
  IN Suspended(<<Call("isFriend", "request", parts[2], parts[3], data.fromAddress),
                 Call("addIncoming", "request", parts[2], parts[3], data.fromAddress)>>)

\* FRIEND_ACCEPT branch of the listener: isFriend, addFriend, removeFriendRequest
AcceptReceipt(data) ==
  LET parts == Split(data.message)
  IN Suspended(<<Call("isFriend", "accept", parts[2], parts[3], data.fromAddress),
                 Call("addFriend", "accept", parts[2], parts[3], data.fromAddress),
                 Call("removeFriendRequest", "accept", parts[2], parts[3],
                      data.fromAddress)>>)

\* handleAddFriend after its sendMessage: addFriendRequest, then
\* handleConnectToPeer
AddFriendCalls(peer) ==
  Suspended(<<Call("addOutgoing", "add", peer.persistentId, peer.displayName,
                   peer.deviceAddress),
              Call("connect", "add", peer.persistentId, peer.displayName,
                   peer.deviceAddress)>>)

\* handleAcceptFriendRequest: addFriend, removeFriendRequest, then
\* sendMessage and setTimeout
AcceptCalls(request) ==
  Suspended(<<Call("addFriend", "tap", request.persistentId, request.displayName,
                   request.deviceAddress),
              Call("removeFriendRequest", "tap", request.persistentId,
                   request.displayName, request.deviceAddress),
              Call("sendAccept", "tap", request.persistentId, request.displayName,
                   request.deviceAddress)>>)

\* handleRejectFriendRequest: removeFriendRequest
RejectCalls(request) ==
  Suspended(<<Call("removeFriendRequest", "reject", request.persistentId,
                   request.displayName, request.deviceAddress)>>)

TaskAnyTime(d) == TRUE

\* An event is dispatched to device d only when no promise job is pending:
\* the awaits of the handlers resolve from the in-memory storage, by promise
\* jobs alone, and promise jobs run before the next event is dispatched.
TaskMayStart(d) == jobs[d] = <<>>

\* The stored table a StorageService call works on.
Table(d, call) ==
  IF call.kind \in {"isFriend", "addFriend"} THEN friends[d] ELSE requests[d]

RemoveAt(list, k) == SubSeq(list, 1, k - 1) \o SubSeq(list, k + 1, Len(list))

\* The handler goes on with its next call, or ends.
Proceed(list, k) ==
  IF Len(list[k].todo) = 1 THEN RemoveAt(list, k)
  ELSE [list EXCEPT ![k] = Suspended(Tail(list[k].todo))]

unjobbedVars == <<connectedEndpoints, connectedPeers, messages, chat, discoveredEndpoints,
                  peers, connectionAttempts, connectionRetryTimers, retryTimeouts,
                  isConnected,
                  identityVars, parseVars>>

\* A StorageService call of the k-th suspended handler of d reads its table.
CallReads(d, k) ==
  LET job == jobs[d][k]
      call == Head(job.todo)
  IN /\ ~job.read
     /\ call.kind \notin {"connect", "sendAccept"}
     /\ jobs' = [jobs EXCEPT ![d][k].read = TRUE, ![d][k].snap = Table(d, call)]
     /\ UNCHANGED <<unjobbedVars, net, friendVars, requestedConnections>>

\* The call is resumed: it answers or writes the table from what it read,
\* and the handler sets its state.
CallResumes(d, k) ==
  LET job == jobs[d][k]
      call == Head(job.todo)
      friend == Friend(call.id, call.name, call.address)
      request == FriendRequest(call.id, call.name, call.address,
                               IF call.kind = "addOutgoing" THEN "outgoing"
                               ELSE "incoming")
  IN /\ job.read
     /\ \/ /\ call.kind = "isFriend"
           /\ jobs' = [jobs EXCEPT ![d] = IF IsFriend(job.snap, call.id)
                                          THEN RemoveAt(@, k) ELSE Proceed(@, k)]
           /\ UNCHANGED friendVars
        \/ /\ call.kind = "addFriend"
           /\ friends' = [friends EXCEPT ![d] = AddFriend(job.snap, friend)]
           /\ friendsList' = [friendsList EXCEPT ![d] = @ \cup {call.id}]
           /\ established' =
                [established EXCEPT
                   ![d] = IF call.handler = "tap" \/ HasOutgoing(requests[d], call.id)
                          THEN @ \cup {call.id} ELSE @]
           /\ jobs' = [jobs EXCEPT ![d] = Proceed(@, k)]
           /\ UNCHANGED <<requests, friendRequests, timers>>
        \/ /\ call.kind \in {"addIncoming", "addOutgoing"}
           /\ requests' = [requests EXCEPT ![d] = AddFriendRequest(job.snap, request)]
           /\ friendRequests' =
                [friendRequests EXCEPT ![d] = Append(WithoutId(@, call.id), request)]
           /\ jobs' = [jobs EXCEPT ![d] = Proceed(@, k)]
           /\ UNCHANGED <<friends, friendsList, timers, established>>
        \/ /\ call.kind = "removeFriendRequest"
           /\ requests' = [requests EXCEPT ![d] = RemoveFriendRequest(job.snap, call.id)]
           /\ friendRequests' = [friendRequests EXCEPT ![d] = WithoutId(@, call.id)]
           /\ jobs' = [jobs EXCEPT ![d] = Proceed(@, k)]
           /\ UNCHANGED <<friends, friendsList, timers, established>>
     /\ UNCHANGED <<unjobbedVars, net, requestedConnections>>

\* The handler is past its last await: handleAddFriend asks for the
\* connection, handleAcceptFriendRequest sends FRIEND_ACCEPT and sets its timer.
HandlerEnds(d, k) ==
  LET job == jobs[d][k]
      call == Head(job.todo)
      calls == BridgeSendMessage(d, <<AcceptMessage(d), call.address>>, "invoked")
  IN /\ call.kind \in {"connect", "sendAccept"}
     /\ net' = net (+) (IF call.kind = "sendAccept" THEN Handed(d, calls) ELSE EmptyBag)
     /\ requestedConnections' =
          [requestedConnections EXCEPT
             ![d] = IF call.kind = "connect" THEN ConnectToPeer(@, {call.address})
                    ELSE @]
     /\ timers' = [timers EXCEPT ![d] = IF call.kind = "sendAccept" THEN @ + 1 ELSE @]
     /\ jobs' = [jobs EXCEPT ![d] = Proceed(@, k)]
     /\ UNCHANGED <<unjobbedVars, friends, requests, friendsList, friendRequests,
                    established>>

\* onPayloadReceived with its listeners, up to the first await of the
\* useChatScreen listener
ReceiptStarts(m) ==
  /\ BagIn(m, net)
  /\ TaskMayStart(m.dst)
  /\ LET d == m.dst
         calls == ForwardMessageToOthers(d, m.text, m.src)
     IN /\ net' = (net (-) SetToBag({m})) (+) Handed(d, calls)
        /\ chat' = [chat EXCEPT ![d] = PersonalChatReceives(@, Data(m))]
        /\ IF IsRequest(m.text)
           THEN /\ jobs' = [jobs EXCEPT ![d] = Append(@, RequestReceipt(Data(m)))]
                /\ UNCHANGED <<friends, requests, friendsList, friendRequests, messages,
                               established>>
           ELSE IF IsAccept(m.text)
           THEN /\ jobs' = [jobs EXCEPT ![d] = Append(@, AcceptReceipt(Data(m)))]
                /\ UNCHANGED <<friends, requests, friendsList, friendRequests, messages,
                               established>>
           ELSE /\ ChatScreenReceives(d, Data(m))
                /\ UNCHANGED jobs
  /\ UNCHANGED <<linkVars, connectedEndpoints, connectedPeers, timers, identityVars,
                 parseVars>>

\* A tap on Add Friend: handleAddFriend sends FRIEND_REQUEST and runs up to
\* its await
AddFriendStarts(d, e) ==
  /\ TaskMayStart(d)
  /\ e # d
  /\ LET peer == Peer(e)
         calls == BridgeSendMessage(d, <<FriendRequestMessage(d), peer.deviceAddress>>,
                                    "invoked")
     IN /\ net' = net (+) Handed(d, calls)
        /\ jobs' = [jobs EXCEPT ![d] = Append(@, AddFriendCalls(peer))]
  /\ UNCHANGED <<unjobbedVars, friendVars, requestedConnections>>

\* A tap on Accept or Reject: the handler runs up to its first await
TapStarts(d, handler) ==
  /\ TaskMayStart(d)
  /\ jobs' = [jobs EXCEPT ![d] = Append(@, handler)]
  /\ UNCHANGED <<unjobbedVars, net, friendVars, requestedConnections>>

\* The setTimeout of handleAcceptFriendRequest is dispatched
TimerStarts(d) == TaskMayStart(d) /\ AcceptBroadcastTimer(d)

\* ----------------------------------------------------------- specifications
NoLinks == [d \in Devices |-> {}]

\* Every device right after its first start: onboarding stored the username
\* and initializeApp created the device id; nothing connected, no friend or
\* request stored, no chat open, no handler suspended.  The peer of the
\* list advertises "a|b".
Init ==
  /\ connectedEndpoints = NoLinks
  /\ connectedPeers = [d \in Devices |-> <<>>]
  /\ net = EmptyBag
  /\ messages = [d \in Devices |-> <<>>]
  /\ chat = [d \in Devices |-> ClosedChat]
  /\ friends = [d \in Devices |-> <<>>]
  /\ requests = [d \in Devices |-> <<>>]
  /\ friendsList = [d \in Devices |-> {}]
  /\ friendRequests = [d \in Devices |-> <<>>]
  /\ timers = [d \in Devices |-> 0]
  /\ established = [d \in Devices |-> {}]
  /\ discoveredEndpoints = NoLinks
  /\ peers = [d \in Devices |-> {}]
  /\ connectionAttempts = [d \in Devices |-> NoAttempts]
  /\ connectionRetryTimers = [d \in Devices |-> NoTimers]
  /\ retryTimeouts = [d \in Devices |-> NoTimeouts]
  /\ requestedConnections = [d \in Devices |-> NoRequests]
  /\ isConnected = [d \in Devices |-> FALSE]
  /\ storedDeviceId = [d \in Devices |-> PId(d)]
  /\ storedUsername = [d \in Devices |-> Username(d)]
  /\ deviceId = [d \in Devices |-> PId(d)]
  /\ jobs = [d \in Devices |-> <<>>]
  /\ deviceName = DeviceIdentifier(<<"a">>, <<"b">>)
  /\ parsedPeer = <<>>

\* What the user types into the broadcast chat: one text of every class the
\* router tells apart, a tagged text with a field missing, and blanks.
ChatTexts ==
  { <<"">>, <<" ">>, <<"hi">>, <<"DIRECT_MSG", "B1", "hi">>,
    <<"FRIEND_REQUEST", "A1", "Alice">>, <<"FRIEND_ACCEPT", "A1", "Alice">>,
    <<"FRIEND_ACCEPT", "A1">> }

NetRoom == BagCardinality(net) < MaxNet
ChatRoom(d) == Len(messages[d]) < MaxMsgs /\ Len(chat[d].messages) < MaxMsgs

\* A receipt with room for what it forwards and displays.
BoundedReceipt(m) ==
  /\ ChatRoom(m.dst)
  /\ BagCardinality(net) + Cardinality(connectedEndpoints[m.dst] \ {m.src}) <= MaxNet + 1
  /\ OnPayloadReceived(m)

\* The devices in radio range of d: A and Bob reach each other through Relay.
InRange(d) == IF d = Relay THEN {A, Bob} ELSE {Relay}

\* ---- Spec: the line comes up link by link while A types into the
\* broadcast chat; payloads are received, forwarded or lost.
Connects ==
  \E d \in Devices : \E e \in InRange(d) :
    /\ e \notin connectedEndpoints[d]
    /\ OnConnectionResult(d, e, TRUE)

ConnectFails == \E d \in Devices : \E e \in InRange(d) : OnConnectionResult(d, e, FALSE)

Broadcasts ==
  \E messageText \in ChatTexts :
    NetRoom /\ ChatRoom(A) /\ HandleSendMessage(A, messageText)

Receives == \E m \in BagToSet(net) : BoundedReceipt(m)

Loses == \E m \in BagToSet(net) : LosePayload(m)

Next ==
  \/ Connects
  \/ ConnectFails
  \/ Broadcasts
  \/ Receives
  \/ Loses

Spec == Init /\ [][Next]_vars

\* ---- SpecConn: connection events only, between any two devices.
Succeeds ==
  \E d \in Devices, e \in Devices :
    /\ Len(connectedPeers[d]) < MaxPeerEvents
    /\ OnConnectionResult(d, e, TRUE)

Disconnects == \E d \in Devices, e \in Devices : OnDisconnected(d, e)

Stops == \E d \in Devices : HandleDisconnect(d)

NextConn ==
  \/ Succeeds
  \/ ConnectFails
  \/ Disconnects
  \/ Stops

SpecConn == Init /\ [][NextConn]_vars

\* ---- FairLine: the line A - Relay - Bob comes up, A broadcasts "hi", and
\* every payload in flight is eventually received (nothing is lost).
Hi == <<"hi">>

LineBroadcasts == Len(messages[A]) < MaxMsgs /\ HandleSendMessage(A, Hi)

LineReceives == \E m \in BagToSet(net) : OnPayloadReceived(m)

NextLine ==
  \/ Connects
  \/ LineBroadcasts
  \/ LineReceives

FairLine == Init /\ [][NextLine]_vars /\ WF_vars(LineReceives)

\* ---- SpecChat: once the line is up A asks Relay for friendship, requests
\* are accepted, personal chats are opened, direct messages are sent and A
\* types DIRECT_MSG texts into the broadcast chat.
\* The endpoints the line has connected, on every device.
LineUp == connectedEndpoints = [d \in Devices |-> InRange(d)]

DirectTexts == { <<"">>, <<" ">>, Hi }

\* DIRECT_MSG texts typed into the broadcast chat: one for Bob, one with an
\* empty target field.
TypedDirects == { <<"DIRECT_MSG", "B1", "hi">>, <<"DIRECT_MSG", NoId, "hi">> }

\* The Add Friend button is offered for a peer that is no friend and has no
\* pending request.
CanAddFriend(d, e) ==
  /\ ~IsFriend(friends[d], PId(e))
  /\ \A i \in DOMAIN friendRequests[d] : friendRequests[d][i].persistentId # PId(e)

AddsFriend ==
  \E e \in InRange(A) : LineUp /\ CanAddFriend(A, e) /\ HandleAddFriend(A, e)

Accepts ==
  \E d \in Devices : \E i \in DOMAIN friendRequests[d] : HandleAcceptFriendRequest(d, i)

TimerFires == \E d \in Devices : AcceptBroadcastTimer(d)

Opens == \E d \in {A, Bob} : \E i \in DOMAIN friends[d] : OpenPersonalChat(d, i)

Loads == \E d \in {A, Bob} : LoadUserData(d)

SendsDirect ==
  \E messageText \in DirectTexts :
    Len(chat[A].messages) < MaxDirects /\ PersonalSendMessage(A, messageText)

TypesDirect ==
  \E messageText \in TypedDirects :
    LineUp /\ Len(messages[A]) < MaxDirects /\ HandleSendMessage(A, messageText)

NextChat ==
  \/ Connects
  \/ AddsFriend
  \/ Accepts
  \/ TimerFires
  \/ Opens
  \/ Loads
  \/ SendsDirect
  \/ TypesDirect
  \/ LineReceives

SpecChat == Init /\ [][NextChat]_vars

\* ---- SpecFriends: once the line is up A sends friendship requests, the
\* requests are accepted or rejected, Relay and Bob remove friends, and A
\* types FRIEND_ACCEPT texts into the broadcast chat.
TypedAccepts == { <<"FRIEND_ACCEPT", "B1", "Bob">>, <<"FRIEND_ACCEPT", "B1">> }

Requests ==
  \E e \in InRange(A) :
    LineUp /\ NetRoom /\ CanAddFriend(A, e) /\ HandleAddFriend(A, e)

FriendAccepts ==
  \E d \in Devices : \E i \in DOMAIN friendRequests[d] :
    NetRoom /\ timers[d] < MaxTimers /\ HandleAcceptFriendRequest(d, i)

Rejects ==
  \E d \in {Relay, Bob} : \E i \in DOMAIN friendRequests[d] : HandleRejectFriendRequest(d, i)

Removes == \E d \in {Relay, Bob} : \E i \in DOMAIN friends[d] : HandleRemoveFriend(d, i)

FriendTimerFires == \E d \in Devices : NetRoom /\ AcceptBroadcastTimer(d)

TypesAccept ==
  \E messageText \in TypedAccepts :
    LineUp /\ NetRoom /\ Len(messages[A]) < MaxForged /\ HandleSendMessage(A, messageText)

NextFriends ==
  \/ Connects
  \/ Requests
  \/ FriendAccepts
  \/ Rejects
  \/ Removes
  \/ FriendTimerFires
  \/ TypesAccept
  \/ LineReceives

SpecFriends == Init /\ [][NextFriends]_vars

\* ---- SpecMutual: once the line is up A and Relay ask each other for
\* friendship, and either or both accept.
MutualRequests ==
  \/ LineUp /\ CanAddFriend(A, Relay) /\ HandleAddFriend(A, Relay)
  \/ LineUp /\ CanAddFriend(Relay, A) /\ HandleAddFriend(Relay, A)

MutualAccepts ==
  \E d \in {A, Relay} : \E i \in DOMAIN friendRequests[d] : HandleAcceptFriendRequest(d, i)

NextMutual ==
  \/ Connects
  \/ MutualRequests
  \/ MutualAccepts
  \/ TimerFires
  \/ LineReceives

SpecMutual == Init /\ [][NextMutual]_vars

\* ---- SpecLink: Relay discovers A and Bob, loses sight of them, connects,
\* is disconnected; its retry timers fire; its user taps Connect, Add Friend
\* and Disconnect.
Listed(d, e) == \E p \in peers[d] : p.deviceAddress = e

\* The Connect button of a listed peer
CanConnect(d, e) ==
  /\ ~isConnected[d]
  /\ \E p \in peers[d] : p.deviceAddress = e /\ p.status = 3

LinkRoom ==
  \A d \in Devices, e \in Devices :
    /\ requestedConnections[d][e] <= MaxRequests
    /\ connectionAttempts[d][e] <= MaxAttempts

Discovers == \E e \in InRange(Relay) : OnEndpointFound(Relay, e) /\ LinkRoom'

LosesSight == \E e \in InRange(Relay) : OnEndpointLost(Relay, e) /\ LinkRoom'

LinkSucceeds ==
  \E e \in InRange(Relay) :
    /\ Len(connectedPeers[Relay]) < MaxPeerEvents
    /\ ConnectionSucceeded(Relay, e)
    /\ LinkRoom'

LinkFails ==
  \E e \in InRange(Relay) : \E statusCode \in StatusCodes :
    ConnectionFailed(Relay, e, statusCode)

RequestFails == \E e \in InRange(Relay) : RequestConnectionFails(Relay, e)

LinkDisconnects == \E e \in InRange(Relay) : OnDisconnected(Relay, e) /\ LinkRoom'

RetryFires == \E e \in InRange(Relay) : RetryTimerFires(Relay, e) /\ LinkRoom'

ManualConnects ==
  \E e \in InRange(Relay) :
    CanConnect(Relay, e) /\ HandleConnectToPeer(Relay, e) /\ LinkRoom'

LinkAddsFriend ==
  \E e \in InRange(Relay) :
    /\ Listed(Relay, e)
    /\ e \in connectedEndpoints[Relay]
    /\ CanAddFriend(Relay, e)
    /\ NetRoom
    /\ HandleAddFriend(Relay, e)
    /\ LinkRoom'

LinkStops == HandleDisconnect(Relay)

NextLink ==
  \/ Discovers
  \/ LosesSight
  \/ LinkSucceeds
  \/ LinkFails
  \/ RequestFails
  \/ LinkDisconnects
  \/ RetryFires
  \/ ManualConnects
  \/ LinkAddsFriend
  \/ LinkStops

SpecLink == Init /\ [][NextLink]_vars

\* ---- SpecSend: Relay's links to A and Bob come and go while its user types
\* into the broadcast chat and, with both links up, taps Add Friend; the
\* payloads sent are received or lost.
SendTexts == { Hi }

SendConnects ==
  \E e \in InRange(Relay) :
    /\ Len(connectedPeers[Relay]) < MaxPeerEvents
    /\ ConnectionSucceeded(Relay, e)

SendDisconnects == \E e \in InRange(Relay) : OnDisconnected(Relay, e)

SendBroadcasts ==
  \E messageText \in SendTexts :
    /\ Len(messages[Relay]) < MaxMsgs
    /\ BagCardinality(net) + Cardinality(connectedEndpoints[Relay]) <= MaxNet
    /\ HandleSendMessage(Relay, messageText)

SendsRequest ==
  \E e \in InRange(Relay) :
    /\ connectedEndpoints[Relay] = InRange(Relay)
    /\ CanAddFriend(Relay, e)
    /\ NetRoom
    /\ HandleAddFriend(Relay, e)

SendReceives == \E m \in BagToSet(net) : BoundedReceipt(m)

SendLoses == \E m \in BagToSet(net) : LosePayload(m)

NextSend ==
  \/ SendConnects
  \/ SendDisconnects
  \/ SendBroadcasts
  \/ SendsRequest
  \/ SendReceives
  \/ SendLoses

SpecSend == Init /\ [][NextSend]_vars

\* ---- SpecParse: devices of the app and endpoints of any name are found,
\* and the peer list parses their names.
Names == Texts(MaxText - 2)

\* generateDeviceId yields no '|'; neither does the one character here.
Ids == {text \in Texts(1) : ~HasDelimiter(text)}

EndpointNames == Texts(MaxText)

AdvertisesIdentity ==
  \E savedUsername \in Names : \E savedDeviceId \in Ids :
    SetDeviceName(savedUsername, savedDeviceId)

FoundAnyName == \E name \in EndpointNames : EndpointNamed(name)

NextParse ==
  \/ AdvertisesIdentity
  \/ FoundAnyName
  \/ ParsePeer

SpecParse == Init /\ [][NextParse]_vars

\* ---- SpecIdentity: the apps are closed and started again, the user of A
\* changes the username, and A connects to Relay, is disconnected and stops
\* its session.
IdRestarts == \E d \in Devices : Restart(d)

IdInitializes == \E d \in Devices : InitializeApp(d)

IdRenames ==
  \E name \in Usernames : storedUsername[A] # name /\ SaveUsername(A, name)

IdConnects ==
  /\ deviceId[A] # NoId
  /\ Len(connectedPeers[A]) < MaxPeerEvents
  /\ OnConnectionResult(A, Relay, TRUE)

IdDisconnects == OnDisconnected(A, Relay)

IdStops == deviceId[A] # NoId /\ HandleDisconnect(A)

NextIdentity ==
  \/ IdRestarts
  \/ IdInitializes
  \/ IdRenames
  \/ IdConnects
  \/ IdDisconnects
  \/ IdStops

SpecIdentity == Init /\ [][NextIdentity]_vars

\* ---- SpecChurn: A connects to Relay and asks it for friendship, Relay
\* accepts; meanwhile Relay finds A and loses sight of it, connections to A
\* are initiated, succeed, fail and break, and Relay stops its session.
ChurnFinds == OnEndpointFound(Relay, A) /\ LinkRoom'

ChurnLoses == OnEndpointLost(Relay, A) /\ LinkRoom'

ChurnInitiated == OnConnectionInitiated(Relay, A)

ChurnSucceeds ==
  /\ Len(connectedPeers[Relay]) < MaxPeerEvents
  /\ ConnectionSucceeded(Relay, A)
  /\ LinkRoom'

ChurnFails == \E statusCode \in StatusCodes : ConnectionFailed(Relay, A, statusCode)

ChurnRequestFails == RequestConnectionFails(Relay, A)

ChurnDisconnects == OnDisconnected(Relay, A) /\ LinkRoom'

ChurnStops == HandleDisconnect(Relay)

PeerConnects ==
  /\ Relay \notin connectedEndpoints[A]
  /\ OnConnectionResult(A, Relay, TRUE)

PeerAsks ==
  /\ Relay \in connectedEndpoints[A]
  /\ NetRoom
  /\ CanAddFriend(A, Relay)
  /\ HandleAddFriend(A, Relay)

ChurnAccepts ==
  \E i \in DOMAIN friendRequests[Relay] :
    NetRoom /\ timers[Relay] < MaxTimers /\ HandleAcceptFriendRequest(Relay, i)

ChurnTimerFires == NetRoom /\ AcceptBroadcastTimer(Relay)

ChurnReceives == \E m \in BagToSet(net) : BoundedReceipt(m)

NextChurn ==
  \/ ChurnFinds
  \/ ChurnLoses
  \/ ChurnInitiated
  \/ ChurnSucceeds
  \/ ChurnFails
  \/ ChurnRequestFails
  \/ ChurnDisconnects
  \/ ChurnStops
  \/ PeerConnects
  \/ PeerAsks
  \/ ChurnAccepts
  \/ ChurnTimerFires
  \/ ChurnReceives

SpecChurn == Init /\ [][NextChurn]_vars

\* ---- SpecReject: once the line is up A and Bob ask Relay for friendship;
\* every device accepts or rejects the requests it lists.
AsksRelay ==
  \E d \in {A, Bob} :
    LineUp /\ NetRoom /\ CanAddFriend(d, Relay) /\ HandleAddFriend(d, Relay)

RejectAccepts ==
  \E d \in Devices : \E i \in DOMAIN friendRequests[d] :
    NetRoom /\ timers[d] < MaxTimers /\ HandleAcceptFriendRequest(d, i)

RejectRejects ==
  \E d \in Devices : \E i \in DOMAIN friendRequests[d] : HandleRejectFriendRequest(d, i)

NextReject ==
  \/ Connects
  \/ AsksRelay
  \/ RejectAccepts
  \/ RejectRejects
  \/ FriendTimerFires
  \/ LineReceives

SpecReject == Init /\ [][NextReject]_vars

\* ---- SpecAsync: SpecReject with the friendship handlers taken await by
\* await: A and Bob ask Relay, Relay accepts or rejects.
JobRoom(d) == Len(jobs[d]) < MaxJobs

AsyncAsks ==
  \E d \in {A, Bob} :
    /\ LineUp
    /\ NetRoom
    /\ CanAddFriend(d, Relay)
    /\ JobRoom(d)
    /\ AddFriendStarts(d, Relay)

AsyncAccepts ==
  \E i \in DOMAIN friendRequests[Relay] :
    /\ friendRequests[Relay][i].type = "incoming"
    /\ timers[Relay] < MaxTimers
    /\ JobRoom(Relay)
    /\ TapStarts(Relay, AcceptCalls(friendRequests[Relay][i]))

AsyncRejects ==
  \E i \in DOMAIN friendRequests[Relay] :
    /\ friendRequests[Relay][i].type = "incoming"
    /\ JobRoom(Relay)
    /\ TapStarts(Relay, RejectCalls(friendRequests[Relay][i]))

AsyncReceives == \E m \in BagToSet(net) : JobRoom(m.dst) /\ ReceiptStarts(m)

AsyncTimerFires == NetRoom /\ TimerStarts(Relay)

Reads == \E d \in Devices : \E k \in DOMAIN jobs[d] : CallReads(d, k)

Resumes == \E d \in Devices : \E k \in DOMAIN jobs[d] : CallResumes(d, k)

Ends == \E d \in Devices : \E k \in DOMAIN jobs[d] : NetRoom /\ HandlerEnds(d, k)

NextAsync ==
  \/ Connects
  \/ AsyncAsks
  \/ AsyncAccepts
  \/ AsyncRejects
  \/ AsyncReceives
  \/ AsyncTimerFires
  \/ Reads
  \/ Resumes
  \/ Ends

SpecAsync == Init /\ [][NextAsync]_vars

\* ---- SpecMalformed: once the line is up A asks Relay for friendship, Relay
\* accepts and opens the personal chat with A, and A types "hi" and tagged
\* texts with a wrong number of fields into the broadcast chat.
MalformedTexts ==
  { <<"FRIEND_REQUEST", "A1">>, <<"FRIEND_REQUEST", "A1", "Al", "ice">>,
    <<"FRIEND_ACCEPT", "A1">>, <<"FRIEND_ACCEPT", "A1", "Al", "ice">>,
    <<"DIRECT_MSG", "R1">> }

AAsksRelay == LineUp /\ CanAddFriend(A, Relay) /\ HandleAddFriend(A, Relay)

RelayAccepts ==
  \E i \in DOMAIN friendRequests[Relay] :
    timers[Relay] < MaxTimers /\ HandleAcceptFriendRequest(Relay, i)

RelayOpens == \E i \in DOMAIN friends[Relay] : OpenPersonalChat(Relay, i)

RelayLoads == LoadUserData(Relay)

TypesMalformed ==
  \E messageText \in MalformedTexts \cup {Hi} :
    LineUp /\ NetRoom /\ Len(messages[A]) < MaxMsgs /\ HandleSendMessage(A, messageText)

NextMalformed ==
  \/ Connects
  \/ AAsksRelay
  \/ RelayAccepts
  \/ TimerFires
  \/ RelayOpens
  \/ RelayLoads
  \/ TypesMalformed
  \/ LineReceives

SpecMalformed == Init /\ [][NextMalformed]_vars

\* ---- FairRing: any two devices connect, so that the three can form a
\* triangle; A broadcasts "hi" once; every payload in flight is eventually
\* received while the receiving chat has room (nothing is lost).
RingConnects ==
  \E d \in Devices : \E e \in Devices \ {d} :
    /\ e \notin connectedEndpoints[d]
    /\ OnConnectionResult(d, e, TRUE)

RingBroadcasts == messages[A] = <<>> /\ HandleSendMessage(A, Hi)

RingReceives == \E m \in BagToSet(net) : ChatRoom(m.dst) /\ OnPayloadReceived(m)

NextRing ==
  \/ RingConnects
  \/ RingBroadcasts
  \/ RingReceives

FairRing == Init /\ [][NextRing]_vars /\ WF_vars(RingReceives)

\* ---- SpecDirect: once the line is up A asks Relay for friendship, Relay
\* and Bob accept the request that reaches them, A opens the personal chat
\* with one of its friends, and Relay and Bob each send A a DIRECT_MSG whose
\* content is the sender's own persistent id.
SignedDirect(d) == <<"DIRECT_MSG", PId(A), PId(d)>>

RecipientAccepts ==
  \E d \in {Relay, Bob} : \E i \in DOMAIN friendRequests[d] :
    timers[d] < MaxTimers /\ HandleAcceptFriendRequest(d, i)

AOpens == \E i \in DOMAIN friends[A] : OpenPersonalChat(A, i)

ALoads == LoadUserData(A)

SendsSigned ==
  \E d \in {Relay, Bob} :
    /\ PId(A) \in {friends[d][i].persistentId : i \in DOMAIN friends[d]}
    /\ chat[A].open
    /\ messages[d] = <<>>
    /\ HandleSendMessage(d, SignedDirect(d))

NextDirect ==
  \/ Connects
  \/ AAsksRelay
  \/ RecipientAccepts
  \/ TimerFires
  \/ AOpens
  \/ ALoads
  \/ SendsSigned
  \/ LineReceives

SpecDirect == Init /\ [][NextDirect]_vars

\* ---- SpecMount: A is closed and started again; the ChatScreen and the
\* PersonalChatScreen mount, and the StorageService calls of their mount
\* effects are taken await by await.
\* initializeApp of useChatScreen: getUsername, getDeviceId, getFriends,
\* getFriendRequests
InitializeAppCalls ==
  Suspended(<<Call("getUsername", "initializeApp", NoId, "", Null),
              Call("getDeviceId", "initializeApp", NoId, "", Null),
              Call("getFriends", "initializeApp", NoId, "", Null),
              Call("getFriendRequests", "initializeApp", NoId, "", Null)>>)

\* loadDeviceId of PersonalChatScreen: getDeviceId
LoadDeviceIdCalls ==
  Suspended(<<Call("getDeviceId", "loadDeviceId", NoId, "", Null)>>)

\* The mount effect of handler is suspended on device d.
Mounting(d, handler) ==
  \E k \in DOMAIN jobs[d] : Head(jobs[d][k].todo).handler = handler

\* The ChatScreen mounts: the effect of useChatScreen calls initializeApp.
ChatScreenMounts(d) ==
  /\ deviceId[d] = NoId
  /\ ~Mounting(d, "initializeApp")
  /\ jobs' = [jobs EXCEPT ![d] = Append(@, InitializeAppCalls)]
  /\ UNCHANGED <<sessionVars, identityVars, parseVars>>

\* The PersonalChatScreen mounts for the friend of its route: its effect
\* calls loadDeviceId.
PersonalChatScreenMounts(d, friend) ==
  /\ ~chat[d].open
  /\ chat' = [chat EXCEPT ![d] = [ClosedChat EXCEPT !.open = TRUE,
                                                    !.friendId = PId(friend),
                                                    !.friendName = Username(friend)]]
  /\ jobs' = [jobs EXCEPT ![d] = Append(@, LoadDeviceIdCalls)]
  /\ UNCHANGED <<connectedEndpoints, connectedPeers, net, messages, friendVars,
                 linkVars, identityVars, parseVars>>

\* The value a StorageService call of a mount effect reads.
Stored(d, call) ==
  CASE call.kind = "getUsername" -> <<storedUsername[d]>>
    [] call.kind = "getDeviceId" -> <<storedDeviceId[d]>>
    [] call.kind = "getFriends" -> friends[d]
    [] call.kind = "getFriendRequests" -> requests[d]

\* A StorageService call of the k-th suspended mount effect of d reads.
MountCallReads(d, k) ==
  LET job == jobs[d][k]
      call == Head(job.todo)
  IN /\ ~job.read
     /\ jobs' = [jobs EXCEPT ![d][k].read = TRUE, ![d][k].snap = Stored(d, call)]
     /\ UNCHANGED <<sessionVars, identityVars, parseVars>>

\* The call is resumed with what it read, and the effect sets its state.
MountCallResumes(d, k) ==
  LET job == jobs[d][k]
      call == Head(job.todo)
  IN /\ job.read
     /\ jobs' = [jobs EXCEPT ![d] = Proceed(@, k)]
     /\ \/ /\ call.kind = "getUsername"
           /\ UNCHANGED <<storedDeviceId, deviceId, chat, friendsList, friendRequests>>
        \/ /\ call.kind = "getDeviceId"
           /\ \E generated \in GeneratedIds :
                LET id == GetDeviceId(job.snap[1], generated)
                IN /\ storedDeviceId' =
                        [storedDeviceId EXCEPT ![d] = IF job.snap[1] = Null THEN id ELSE @]
                   /\ deviceId' =
                        [deviceId EXCEPT ![d] = IF call.handler = "initializeApp"
                                                THEN id ELSE @]
                   /\ chat' =
                        [chat EXCEPT ![d].myPersistentId =
                                       IF call.handler = "loadDeviceId" THEN id ELSE @]
           /\ UNCHANGED <<friendsList, friendRequests>>
        \/ /\ call.kind = "getFriends"
           /\ friendsList' =
                [friendsList EXCEPT
                   ![d] = {job.snap[i].persistentId : i \in DOMAIN job.snap}]
           /\ UNCHANGED <<storedDeviceId, deviceId, chat, friendRequests>>
        \/ /\ call.kind = "getFriendRequests"
           /\ friendRequests' = [friendRequests EXCEPT ![d] = job.snap]
           /\ UNCHANGED <<storedDeviceId, deviceId, chat, friendsList>>
     /\ UNCHANGED <<connectedEndpoints, connectedPeers, net, messages, friends, requests,
                    timers, established, linkVars, storedUsername, parseVars>>

MountRestarts == jobs[A] = <<>> /\ deviceId[A] # NoId /\ Restart(A)

MountsChats == ChatScreenMounts(A)

MountsPersonalChat == \E friend \in {Relay, Bob} : PersonalChatScreenMounts(A, friend)

MountReads == \E k \in DOMAIN jobs[A] : MountCallReads(A, k)

MountResumes == \E k \in DOMAIN jobs[A] : MountCallResumes(A, k)

NextMount ==
  \/ MountRestarts
  \/ MountsChats
  \/ MountsPersonalChat
  \/ MountReads
  \/ MountResumes

SpecMount == Init /\ [][NextMount]_vars

\* ---- FairDecide: once the line is up A asks Relay for friendship, and
\* Relay and Bob accept or reject the request that reaches them; every
\* payload in flight is eventually received and every accept timer
\* eventually fires (nothing is lost).
RecipientRejects ==
  \E d \in {Relay, Bob} : \E i \in DOMAIN friendRequests[d] :
    HandleRejectFriendRequest(d, i)

NextDecide ==
  \/ Connects
  \/ AAsksRelay
  \/ RecipientAccepts
  \/ RecipientRejects
  \/ TimerFires
  \/ LineReceives

FairDecide ==
  Init /\ [][NextDecide]_vars /\ WF_vars(LineReceives) /\ WF_vars(TimerFires)

\* ---- SpecTable: A and Relay connect, ask each other for friendship,
\* accept or reject the requests they list, and may then ask again.
PairUp == connectedEndpoints[A] = {Relay} /\ connectedEndpoints[Relay] = {A}

TableConnects ==
  \E d \in {A, Relay} : \E e \in {A, Relay} \ {d} :
    /\ e \notin connectedEndpoints[d]
    /\ OnConnectionResult(d, e, TRUE)

TableRequests ==
  \/ PairUp /\ NetRoom /\ CanAddFriend(A, Relay) /\ HandleAddFriend(A, Relay) /\ LinkRoom'
  \/ PairUp /\ NetRoom /\ CanAddFriend(Relay, A) /\ HandleAddFriend(Relay, A) /\ LinkRoom'

TableAccepts ==
  \E d \in {A, Relay} : \E i \in DOMAIN friendRequests[d] :
    NetRoom /\ timers[d] < MaxTimers /\ HandleAcceptFriendRequest(d, i)

TableRejects ==
  \E d \in {A, Relay} : \E i \in DOMAIN friendRequests[d] : HandleRejectFriendRequest(d, i)

NextTable ==
  \/ TableConnects
  \/ TableRequests
  \/ TableAccepts
  \/ TableRejects
  \/ FriendTimerFires
  \/ LineReceives

SpecTable == Init /\ [][NextTable]_vars

\* ---- SpecColon: once the line is up A asks Relay for friendship and Relay
\* accepts; both open the personal chat with each other; Relay sends A
\* direct messages, "hi" and "a:b", from the personal chat and by typing the
\* payload of the personal chat into the broadcast chat.
ColonTexts == {Hi, <<"a", "b">>}

ColonSends ==
  \E messageText \in ColonTexts :
    /\ Len(chat[Relay].messages) < MaxDirects
    /\ PersonalSendMessage(Relay, messageText)

ColonTypes ==
  \E messageText \in ColonTexts :
    /\ chat[A].open
    /\ messages[Relay] = <<>>
    /\ HandleSendMessage(Relay, DirectMessage(PId(A), messageText))

ColonLoads == \E d \in {A, Relay} : LoadUserData(d)

NextColon ==
  \/ Connects
  \/ AAsksRelay
  \/ RelayAccepts
  \/ TimerFires
  \/ AOpens
  \/ ColonLoads
  \/ RelayOpens
  \/ ColonSends
  \/ ColonTypes
  \/ LineReceives

SpecColon == Init /\ [][NextColon]_vars

\* ------------------------------------------------------------ hook cleanup
\* The cleanup of the useEffect of useChatScreen, run when the ChatScreen
\* unmounts: the listeners are removed, every timer of connectionRetryTimers
\* is cleared, both maps are cleared. The state of the hook goes with the
\* instance; the next mount starts from the initial values of useState.
Cleanup(d) ==
  /\ retryTimeouts' =
       [retryTimeouts EXCEPT
          ![d] = [e \in Devices |-> ClearTimeout(@, connectionRetryTimers[d], e)[e]]]
  /\ connectionRetryTimers' = [connectionRetryTimers EXCEPT ![d] = NoTimers]
  /\ connectionAttempts' = [connectionAttempts EXCEPT ![d] = NoAttempts]
  /\ connectedPeers' = [connectedPeers EXCEPT ![d] = <<>>]
  /\ peers' = [peers EXCEPT ![d] = {}]
  /\ isConnected' = [isConnected EXCEPT ![d] = FALSE]
  /\ messages' = [messages EXCEPT ![d] = <<>>]
  /\ friendsList' = [friendsList EXCEPT ![d] = {}]
  /\ friendRequests' = [friendRequests EXCEPT ![d] = <<>>]
  /\ deviceId' = [deviceId EXCEPT ![d] = NoId]
  /\ UNCHANGED <<connectedEndpoints, discoveredEndpoints, requestedConnections, net,
                 chat, friends, requests, timers, established, storedDeviceId,
                 storedUsername, jobs, parseVars>>

Unmounts == deviceId[Relay] # NoId /\ Cleanup(Relay)

Remounts == InitializeApp(Relay)

NextTimers ==
  \/ Discovers
  \/ LosesSight
  \/ LinkSucceeds
  \/ LinkFails
  \/ RequestFails
  \/ LinkDisconnects
  \/ RetryFires
  \/ Unmounts
  \/ Remounts

\* The retry timers of one device under discovery, connection results and
\* the unmounting of its ChatScreen
SpecTimers == Init /\ [][NextTimers]_vars

\* ------------------------------------------------------------- properties
\* The payloads device d re-sends when m arrives: one copy of m.text for
\* every endpoint of its connected set other than the one m came from.
Resent(m) ==
  SetToBag({[src |-> m.dst, dst |-> e, text |-> m.text] :
              e \in connectedEndpoints[m.dst] \ {m.src}})

\* C1: every payload received from endpoint E, whatever its classification,
\* is re-sent unchanged to exactly the connected endpoints other than E: the
\* receipt takes the payload out of the transport and puts in one copy for
\* each of them, and nothing else.
C1_FloodForward ==
  [][\A m \in BagToSet(net) :
       OnPayloadReceived(m) => net' = (net (-) SetToBag({m})) (+) Resent(m)]_vars

\* Relay, connected to A and to Bob, has received a tagged payload from A
\* and its copy travels to Bob alone.
C1_Witness ==
  /\ connectedEndpoints[Relay] = {A, Bob}
  /\ \E m \in BagToSet(net) :
       m.src = Relay /\ m.dst = Bob /\ m.text = <<"FRIEND_ACCEPT", "A1">>
  /\ \A m \in BagToSet(net) : m.dst # A

\* C2: in the line A - Relay - Bob a broadcast of A is delivered to Bob (every
\* copy in flight while the line is up ends in Bob's chat), every copy Bob
\* receives arrives from Relay, and Relay never sends a payload back to A.
C2_LineBroadcast ==
  /\ [](\A m \in BagToSet(net) : ~(m.src = Relay /\ m.dst = A))
  /\ [](\A i \in DOMAIN messages[Bob] :
          messages[Bob][i].fromAddress = Relay /\ messages[Bob][i].text = Hi)
  /\ \A n \in 1..MaxMsgs :
       (LineUp /\ Len(messages[Bob]) + BagCardinality(net) >= n)
         ~> (Len(messages[Bob]) >= n)

\* Bob shows every broadcast A sent, each received from Relay, and A shows
\* nothing it did not type.
C2_Witness ==
  /\ LineUp
  /\ Len(messages[Bob]) = MaxMsgs
  /\ \A i \in DOMAIN messages[Bob] : messages[Bob][i].fromAddress = Relay
  /\ \A i \in DOMAIN messages[A] : messages[A][i].isSent

\* The ids of the Friend records device d stores.
FriendIds(d) == {friends[d][i].persistentId : i \in DOMAIN friends[d]}

\* The number of Friend records device d stores for id.
Records(d, id) == Cardinality({i \in DOMAIN friends[d] : friends[d][i].persistentId = id})

\* Nothing is in flight and no accept broadcast is pending.
Quiet == net = EmptyBag /\ \A d \in Devices : timers[d] = 0

\* What a personal chat or the broadcast chat shows as received.
ShownInChat(d) == {chat[d].messages[i].raw : i \in {j \in DOMAIN chat[d].messages :
                                                      ~chat[d].messages[j].isSent}}
ShownInBroadcast(d) == {messages[d][i].text : i \in {j \in DOMAIN messages[d] :
                                                       ~messages[d][j].isSent}}

\* C3: a received DIRECT_MSG is displayed only on the device whose own
\* persistent id is the target the payload carries: a personal chat shows no
\* direct message for another id, and the broadcast chat shows none at all.
C3_DirectOnlyAtTarget ==
  \A d \in Devices :
    /\ \A raw \in ShownInChat(d) : raw[2] = PId(d)
    /\ \A text \in ShownInBroadcast(d) : ~StartsWithTag(text, "DIRECT_MSG")

\* C4: sendDirect hands the DIRECT_MSG payload to the transport once for
\* every connected endpoint, whoever the friend is.
C4_DirectIsBroadcast ==
  [][\A messageText \in DirectTexts :
       PersonalSendMessage(A, messageText) =>
         net' = net (+) SetToBag({[src |-> A, dst |-> e,
                                   text |-> DirectMessage(chat[A].friendId, messageText)] :
                                    e \in connectedEndpoints[A]})]_vars

DirectHi == <<"DIRECT_MSG", "B1", "hi">>

\* C5: with A connected only to Relay and Relay connected to Bob, A's
\* sendDirect("B1", "hi") puts the payload on its way to Relay, Relay passes
\* it on to Bob, Bob's open chat displays it, and no other device displays it.
C5_DirectViaRelay ==
  /\ [][(PersonalSendMessage(A, Hi) /\ chat[A].friendId = "B1" /\ LineUp)
          => BagIn([src |-> A, dst |-> Relay, text |-> DirectHi], net')]_vars
  /\ [][\A m \in BagToSet(net) :
          (OnPayloadReceived(m) /\ m.text = DirectHi /\ m.dst = Relay /\ LineUp)
            => BagIn([src |-> Relay, dst |-> Bob, text |-> DirectHi], net')]_vars
  /\ [][\A m \in BagToSet(net) :
          (OnPayloadReceived(m) /\ m.text = DirectHi /\ m.dst = Bob
             /\ chat[Bob].open /\ chat[Bob].myPersistentId = "B1")
            => DirectHi \in ShownInChat(Bob)']_vars
  /\ [](\A d \in Devices \ {Bob} :
          DirectHi \notin ShownInChat(d) /\ DirectHi \notin ShownInBroadcast(d))

\* C6: each endpoint id appears at most once in the connected set: in the
\* native connectedEndpoints (a set) and in the JS connectedPeers list.
C6_EndpointOnce ==
  \A d \in Devices :
    \A i, j \in DOMAIN connectedPeers[d] :
      EndpointOf(connectedPeers[d][i]) = EndpointOf(connectedPeers[d][j]) => i = j

\* C7: the stored friends list of every device holds at most one Friend
\* record per persistent id (the in-memory friendsList is a Set of ids and
\* holds the ids the handlers added, each once).
C7_OneFriendPerId ==
  \A d \in Devices :
    \A i, j \in DOMAIN friends[d] :
      friends[d][i].persistentId = friends[d][j].persistentId => i = j

\* Relay stores a Friend for A1 and one for B1 after A typed a FRIEND_ACCEPT
\* for B1, Bob accepted A's request and every copy has been delivered.
C7_Witness ==
  /\ FriendIds(Relay) = {"A1", "B1"}
  /\ "A1" \in established[Bob]
  /\ Len(messages[A]) = 1 /\ messages[A][1].text = <<"FRIEND_ACCEPT", "B1", "Bob">>
  /\ Quiet

\* C8: a device holds a Friend record for id X only if it accepted an
\* incoming request from X itself, or had an outgoing request to X when X's
\* FRIEND_ACCEPT arrived.
C8_FriendOnlyByAccept ==
  \A d \in Devices : FriendIds(d) \subseteq established[d]

\* C9: the receipt of a FRIEND_ACCEPT for an id the device already stores as
\* a Friend leaves the stored friends, the friendsList, the stored requests
\* and the listed requests as they were.
C9_DuplicateAccept ==
  [][\A m \in BagToSet(net) :
       (OnPayloadReceived(m) /\ IsAccept(m.text) /\ m.text[2] \in FriendIds(m.dst))
         => /\ friends' = friends
            /\ friendsList' = friendsList
            /\ requests' = requests
            /\ friendRequests' = friendRequests]_vars

\* Bob accepted A's request and both of his FRIEND_ACCEPT copies, the one
\* sent to Relay and the broadcast one, have been forwarded to A and
\* received there: the first made B1 a Friend of A, the second found it one.
C9_Witness ==
  /\ "B1" \in FriendIds(A)
  /\ "A1" \in established[Bob]
  /\ Quiet

\* C10: when A and Relay have asked each other for friendship and either or
\* both accepted, then once everything is delivered A stores exactly one
\* Friend record for Relay and Relay exactly one for A.
C10_MutualOnce ==
  (Quiet /\ (established[A] # {} \/ established[Relay] # {}))
    => Records(A, "R1") = 1 /\ Records(Relay, "A1") = 1

\* Both accepted their incoming request and everything is delivered.
C10_Witness ==
  /\ Quiet
  /\ "R1" \in established[A]
  /\ "A1" \in established[Relay]
  /\ Records(A, "R1") = 1
  /\ Records(Relay, "A1") = 1

\* ------------------------------------------------ connecting and retrying
\* A requestConnection call to e goes out in this step of device d.
IssuesRequest(d, e) == requestedConnections'[d][e] > requestedConnections[d][e]

\* e is discovered by d and not connected to it.
Available(d, e) == e \in discoveredEndpoints[d] /\ e \notin connectedEndpoints[d]

\* C11: while e stays in the connected set of d, which it does from a
\* successful onConnectionResult until it is disconnected, no step of d (peer
\* list update, retry timer, Connect button, Add Friend) issues a connect
\* request to e.
C11_NoConnectWhileConnected ==
  [][\A d \in Devices, e \in Devices :
       e \in connectedEndpoints[d] /\ e \in connectedEndpoints'[d] => ~IssuesRequest(d, e)]_vars

\* C12: onDisconnected(e) removes e from the connected set and issues no
\* connect request to e.
C12_NoAutoReconnect ==
  [][\A d \in Devices, e \in Devices :
       OnDisconnected(d, e) => e \notin connectedEndpoints'[d] /\ ~IssuesRequest(d, e)]_vars

\* C13: a successful onConnectionResult for e leaves e connected, no retry
\* timer stored for e and no attempt counted for e; a failed one that is not
\* peer-gone leaves the timer of e as it was.
C13_SuccessCancelsTimer ==
  [][\A d \in Devices, e \in Devices :
       /\ ConnectionSucceeded(d, e) =>
            /\ e \in connectedEndpoints'[d]
            /\ connectionRetryTimers'[d][e] = "none"
            /\ connectionAttempts'[d][e] = 0
       /\ \A statusCode \in StatusCodes \ {3} :
            ConnectionFailed(d, e, statusCode) =>
              connectionRetryTimers'[d][e] = connectionRetryTimers[d][e]]_vars

\* C14: the retry timer of e issues a connect request only when e is
\* discovered and not connected; fired for an e that is connected or no longer
\* discovered, it issues no request, counts no attempt, arms no timer and
\* changes nothing else.
C14_RetryRechecks ==
  [][\A d \in Devices, e \in Devices :
       RetryTimerFires(d, e) =>
         /\ IssuesRequest(d, e) => Available(d, e)
         /\ ~Available(d, e) =>
              /\ requestedConnections' = requestedConnections
              /\ connectionAttempts' = connectionAttempts
              /\ connectionRetryTimers'[d][e] = "fired"
              /\ UNCHANGED <<connectedEndpoints, connectedPeers, peers,
                             discoveredEndpoints, isConnected, net>>]_vars

\* The retry timer of A has fired at Relay with A connected and no request
\* to A outstanding.
C14_Witness ==
  /\ connectionRetryTimers[Relay][A] = "fired"
  /\ A \in connectedEndpoints[Relay]
  /\ requestedConnections[Relay][A] = 0

\* C15: when the retry timer of e fires with e discovered and not connected,
\* another connect request is issued to e.
C15_RetryWhileAvailable ==
  [][\A d \in Devices, e \in Devices :
       RetryTimerFires(d, e) /\ Available(d, e) => IssuesRequest(d, e)]_vars

\* C16: a discovery update issues a connect request to a peer only if the
\* peer is not connected and no connect request to it is awaiting its result.
C16_NoSecondRequest ==
  [][\A d \in Devices, e \in Devices :
       /\ \E f \in Devices : OnEndpointFound(d, f) \/ OnEndpointLost(d, f)
       /\ IssuesRequest(d, e)
       => e \notin connectedEndpoints[d] /\ requestedConnections[d][e] = 0]_vars

\* C17: a connection error with reason code 8001 for e leaves no retry timer
\* armed for e.
C17_RejectedStopsRetry ==
  [][\A d \in Devices, e \in Devices :
       ConnectionFailed(d, e, 8001) => connectionRetryTimers'[d][e] # "armed"]_vars

\* C18: a connection error with reason code 3 for e leaves no retry timer and
\* no attempt counter for e, and e is no longer in the peers table.
C18_PeerGoneDropsPeer ==
  [][\A d \in Devices, e \in Devices :
       ConnectionFailed(d, e, 3) =>
         /\ connectionRetryTimers'[d][e] = "none"
         /\ connectionAttempts'[d][e] = 0
         /\ ~(Listed(d, e))']_vars

\* ----------------------------------------------------------------- sending
NoPeersError == MessageError("No connected peers")

\* C19: a broadcast with an empty connected set emits the onMessageError
\* event "No connected peers" and nothing else, hands no payload to the
\* transport, and nothing is sent for it when a connection comes up later.
C19_NoPeersReported ==
  [][\A d \in Devices :
       /\ \A messageText \in SendTexts :
            HandleSendMessage(d, messageText) /\ connectedEndpoints[d] = {} =>
              /\ SendMessageEvents(d, messageText, Null) = {NoPeersError}
              /\ net' = net
       /\ \A e \in Devices : ConnectionSucceeded(d, e) => net' = net]_vars

\* Relay, never connected, shows a message of its own and nothing is in
\* flight.
C19_Witness ==
  /\ ~isConnected[Relay]
  /\ Len(messages[Relay]) > 0
  /\ net = EmptyBag

\* C20: a send to a target hands the payload to that endpoint alone, a send
\* without a target hands one payload to every connected endpoint.
C20_TargetOrAll ==
  [][\A d \in Devices :
       /\ \A e \in connectedEndpoints[d] :
            HandleAddFriend(d, e) =>
              net' = net (+) SetToBag({[src |-> d, dst |-> e,
                                        text |-> FriendRequestMessage(d)]})
       /\ \A messageText \in SendTexts :
            HandleSendMessage(d, messageText) =>
              net' = net (+) SetToBag({[src |-> d, dst |-> e, text |-> messageText] :
                                         e \in connectedEndpoints[d]})]_vars

\* Relay, connected to A and Bob, has sent its FRIEND_REQUEST to A, and that
\* is the only payload in flight.
C20_Witness ==
  /\ connectedEndpoints[Relay] = {A, Bob}
  /\ net = SetToBag({[src |-> Relay, dst |-> A, text |-> FriendRequestMessage(Relay)]})
  /\ HasOutgoing(requests[Relay], PId(A))

\* The positions of the pending requests a table holds for id.
PendingFor(rs, id) == {i \in DOMAIN rs : rs[i].persistentId = id}

\* The table holds exactly one pending request for id, an incoming one.
OneIncoming(rs, id) ==
  /\ Cardinality(PendingFor(rs, id)) = 1
  /\ \A i \in PendingFor(rs, id) : rs[i].type = "incoming"

\* C21: the receipt of a FRIEND_REQUEST carrying persistent id P leaves the
\* friends and the pending requests of the receiver as they were when a
\* Friend for P is stored; otherwise the receiver holds exactly one pending
\* request for P afterwards, an incoming one, and no Friend was created.
C21_RequestReceipt ==
  [][\A m \in BagToSet(net) :
       (OnPayloadReceived(m) /\ IsRequest(m.text))
         => LET d == m.dst
                P == m.text[2]
            IN /\ friends'[d] = friends[d]
               /\ friendsList'[d] = friendsList[d]
               /\ IF P \in FriendIds(d)
                  THEN /\ requests'[d] = requests[d]
                       /\ friendRequests'[d] = friendRequests[d]
                  ELSE /\ OneIncoming(requests'[d], P)
                       /\ OneIncoming(friendRequests'[d], P)]_vars

\* A asked Relay and then received Relay's own request: the incoming
\* request took the place of A's outgoing one, while Relay holds A's.
C21_Witness ==
  /\ OneIncoming(requests[A], "R1")
  /\ OneIncoming(friendRequests[A], "R1")
  /\ PendingFor(requests[Relay], "A1") # {}
  /\ FriendIds(A) = {}

\* C22: a FRIEND_REQUEST that A sends to the endpoint of Relay is recorded
\* as a pending request on Relay only: no other device holds a pending
\* request from A.
C22_RequestOnlyAtTarget ==
  \A d \in Devices \ {Relay} :
    /\ PendingFor(requests[d], PId(A)) = {}
    /\ PendingFor(friendRequests[d], PId(A)) = {}

\* C23: handleAcceptFriendRequest stores the Friend for the requester,
\* removes the pending request for that id, and sends FRIEND_ACCEPT to the
\* endpoint recorded with the request; its timer then sends FRIEND_ACCEPT to
\* every connected endpoint; a device that receives a FRIEND_ACCEPT stores
\* the Friend and holds no outgoing request for that id afterwards.
C23_AcceptProtocol ==
  /\ [][\A d \in Devices : \A i \in DOMAIN friendRequests[d] :
          HandleAcceptFriendRequest(d, i)
            => LET request == friendRequests[d][i]
                   id == request.persistentId
                   direct == [src |-> d, dst |-> request.deviceAddress,
                              text |-> AcceptMessage(d)]
               IN /\ id \in FriendIds(d)'
                  /\ PendingFor(requests'[d], id) = {}
                  /\ PendingFor(friendRequests'[d], id) = {}
                  /\ net' = net (+) (IF request.deviceAddress \in connectedEndpoints[d]
                                      THEN SetToBag({direct}) ELSE EmptyBag)
                  /\ timers'[d] = timers[d] + 1]_vars
  /\ [][\A d \in Devices :
          AcceptBroadcastTimer(d)
            => net' = net (+) SetToBag({[src |-> d, dst |-> e, text |-> AcceptMessage(d)] :
                                         e \in connectedEndpoints[d]})]_vars
  /\ [][\A m \in BagToSet(net) :
          (OnPayloadReceived(m) /\ IsAccept(m.text))
            => /\ m.text[2] \in FriendIds(m.dst)'
               /\ ~HasOutgoing(requests'[m.dst], m.text[2])
               /\ ~HasOutgoing(friendRequests'[m.dst], m.text[2])]_vars

\* Relay accepted A's request, both of its FRIEND_ACCEPT copies reached A,
\* and A stores Relay as a Friend with no request for Relay left.
C23_Witness ==
  /\ "A1" \in established[Relay]
  /\ "R1" \in FriendIds(A)
  /\ PendingFor(requests[A], "R1") = {}
  /\ PendingFor(requests[Relay], "A1") = {}
  /\ Quiet

\* The names and ids without a delimiter.
PlainTexts == {text \in EndpointNames : ~HasDelimiter(text)}

\* C27: parseDeviceIdentifier applied to name + '|' + id gives back name as
\* displayName and id as persistentId, for every name and id without '|'.
C27_ParseRoundTrip ==
  [][ParsePeer =>
       \A name \in PlainTexts : \A id \in PlainTexts :
         deviceName = name \o <<"|">> \o id
           => parsedPeer' = <<[displayName |-> name, persistentId |-> Defined(id)]>>]_vars

\* The name "ab|b" has been parsed into displayName "ab" and persistentId "b".
C27_Witness ==
  /\ deviceName = <<"a", "b", "|", "b">>
  /\ parsedPeer = <<[displayName |-> <<"a", "b">>, persistentId |-> Defined(<<"b">>)]>>

\* C28: parsing splits on the first delimiter: a name with a '|' gives the
\* text before the first '|' as displayName and the text after it as
\* persistentId; a name without '|' gives the name as displayName and no
\* persistentId.
C28_SplitsOnFirst ==
  [][ParsePeer =>
       parsedPeer' =
         IF HasDelimiter(deviceName)
         THEN LET i == FirstDelimiter(deviceName)
              IN <<[displayName |-> SubSeq(deviceName, 1, i - 1),
                    persistentId |->
                      Defined(SubSeq(deviceName, i + 1, Len(deviceName)))]>>
         ELSE <<[displayName |-> deviceName, persistentId |-> Undefined]>>]_vars

\* C29: every getDeviceId call after the one that created the id returns
\* the id created first, also after a restart, a disconnection, a
\* reconnection and a change of the username.
C29_SameDeviceId ==
  [][\A d \in Devices : InitializeApp(d) => deviceId'[d] = PId(d)]_vars

\* A transport event of device d about endpoint e, or d stopping its session.
TransportEvent(d, e) ==
  \/ OnEndpointFound(d, e)
  \/ OnEndpointLost(d, e)
  \/ OnConnectionInitiated(d, e)
  \/ OnConnectionResult(d, e, TRUE)
  \/ OnConnectionResult(d, e, FALSE)
  \/ OnDisconnected(d, e)
  \/ RequestConnectionFails(d, e)
  \/ HandleDisconnect(d)

\* C24: a transport event (endpoint found or lost, connection initiated,
\* connection result, disconnected, connection error) and the stopping of
\* the session leave the stored Friend records and the stored device id of
\* every device as they were.
C24_TransportKeepsFriends ==
  [][\A d \in Devices : \A e \in Devices :
       TransportEvent(d, e)
         => friends' = friends /\ storedDeviceId' = storedDeviceId]_vars

\* Relay stores A as a Friend, under the id it was created with, after it
\* was disconnected from A and lost sight of it.
C24_Witness ==
  /\ FriendIds(Relay) = {"A1"}
  /\ storedDeviceId[Relay] = "R1"
  /\ isConnected[Relay]
  /\ connectedEndpoints[Relay] = {}
  /\ discoveredEndpoints[Relay] = {}

\* C25: after handleDisconnect no retry timer of the device is armed and
\* its peer table and its connected set are empty, on the native side
\* (discoveredEndpoints, connectedEndpoints) and on the JS side (peers,
\* connectedPeers).
C25_StopClearsPeers ==
  [][\A d \in Devices :
       HandleDisconnect(d)
         => /\ \A e \in Devices : connectionRetryTimers'[d][e] # "armed"
            /\ discoveredEndpoints'[d] = {}
            /\ connectedEndpoints'[d] = {}
            /\ peers'[d] = {}
            /\ connectedPeers'[d] = <<>>]_vars

\* C30: handleRejectFriendRequest removes the pending request for the id
\* from storage and from the listed requests, creates no Friend, sends no
\* payload and arms no timer, and leaves every other pending request and
\* every Friend record, of this and of every other device, as it was.
C30_RejectOnlyRemoves ==
  [][\A d \in Devices : \A i \in DOMAIN friendRequests[d] :
       HandleRejectFriendRequest(d, i)
         => LET id == friendRequests[d][i].persistentId
                Other(r) == r.persistentId # id
            IN /\ PendingFor(requests'[d], id) = {}
               /\ PendingFor(friendRequests'[d], id) = {}
               /\ SelectSeq(requests'[d], Other) = SelectSeq(requests[d], Other)
               /\ SelectSeq(friendRequests'[d], Other) = SelectSeq(friendRequests[d], Other)
               /\ \A e \in Devices \ {d} :
                    requests'[e] = requests[e] /\ friendRequests'[e] = friendRequests[e]
               /\ friends' = friends
               /\ friendsList' = friendsList
               /\ net' = net
               /\ timers' = timers]_vars

\* Relay rejected A's request, which A still lists as outgoing, and still
\* holds the request of Bob.
C30_Witness ==
  /\ HasOutgoing(requests[A], "R1")
  /\ PendingFor(requests[Relay], "A1") = {}
  /\ PendingFor(friendRequests[Relay], "A1") = {}
  /\ "A1" \notin FriendIds(Relay)
  /\ PendingFor(requests[Relay], "B1") # {}
  /\ net = EmptyBag

Malformed(text) ==
  \/ StartsWithTag(text, "FRIEND_REQUEST") /\ Len(Split(text)) # 3
  \/ StartsWithTag(text, "FRIEND_ACCEPT") /\ Len(Split(text)) # 3
  \/ StartsWithTag(text, "DIRECT_MSG") /\ Len(SplitLimit(text, 3)) # 3

\* C31: the receipt of a tagged payload with a bad field count changes no
\* friend, no pending request and no displayed message of any chat, and the
\* listeners stay able to take every payload in flight.
C31_MalformedDropped ==
  /\ [][\A m \in BagToSet(net) :
          (OnPayloadReceived(m) /\ Malformed(m.text))
            => UNCHANGED <<friends, requests, friendsList, friendRequests,
                           messages, chat>>]_vars
  /\ [](\A m \in BagToSet(net) : ENABLED OnPayloadReceived(m))

\* A typed a malformed text and then "hi" while Relay had the personal chat
\* with A open; both payloads went down the line, and Relay and Bob show
\* "hi" alone.
C31_Witness ==
  /\ chat[Relay].open
  /\ chat[Relay].myPersistentId = "R1"
  /\ Len(messages[A]) = 2
  /\ Malformed(messages[A][1].text)
  /\ messages[A][2].text = Hi
  /\ net = EmptyBag
  /\ \A d \in {Relay, Bob} :
       Len(messages[d]) = 1 /\ messages[d][1].text = Hi /\ ~messages[d][1].isSent
  /\ chat[Relay].messages = <<>>

\* Every device is connected to the two others.
Triangle == connectedEndpoints = [d \in Devices |-> Devices \ {d}]

TriangleKeepsCopies ==
  [][\A m \in BagToSet(net) :
       (Triangle /\ OnPayloadReceived(m))
         => BagCardinality(net') = BagCardinality(net)]_vars

\* The endpoint ids the entries of the connectedPeers list stand for.
PeerIds(d) == {EndpointOf(connectedPeers[d][i]) : i \in DOMAIN connectedPeers[d]}

\* C33: the connectedPeers list of useChatScreen holds exactly the endpoint
\* ids of the native connectedEndpoints set, after every connection event
\* and operation.
C33_PeersMatchNative == \A d \in Devices : PeerIds(d) = connectedEndpoints[d]

\* C34: every endpoint of the native connected set is a key of
\* discoveredEndpoints, and so appears in the list updatePeersList emits,
\* with status 0.
C34_ConnectedAreListed ==
  \A d \in Devices :
    /\ connectedEndpoints[d] \subseteq discoveredEndpoints[d]
    /\ \A e \in connectedEndpoints[d] :
         [deviceAddress |-> e, status |-> 0]
           \in UpdatePeersList(discoveredEndpoints[d], connectedEndpoints[d])

\* C35: a received DIRECT_MSG is shown only in the personal chat with the
\* friend who sent it: every message a personal chat shows as received
\* carries, as its content, the persistent id of the friend the chat is with.
C35_ShownWithSender ==
  \A d \in Devices : \A i \in DOMAIN chat[d].messages :
    ~chat[d].messages[i].isSent => chat[d].messages[i].text = <<chat[d].friendId>>

Decided(d, e) ==
  /\ HasOutgoing(requests[d], PId(e))
  /\ PendingFor(requests[e], PId(d)) = {}
  /\ PendingFor(friendRequests[e], PId(d)) = {}
  /\ \A m \in BagToSet(net) : ~(m.dst = e /\ m.text = FriendRequestMessage(d))

\* C37: once the recipient has accepted or rejected a request, and messages
\* are delivered, the requester's outgoing request for the recipient's id is
\* eventually removed.
C37_RequestResolved == Decided(A, Relay) ~> ~HasOutgoing(requests[A], PId(Relay))

\* C38: the pending-request table holds at most one request per persistent
\* id, in storage and in the friendRequests state, on every device.
C38_OneRequestPerId ==
  \A d \in Devices : \A e \in Devices :
    /\ Cardinality(PendingFor(requests[d], PId(e))) <= 1
    /\ Cardinality(PendingFor(friendRequests[d], PId(e))) <= 1

\* A and Relay asked each other before either request arrived: on both the
\* incoming request took the place of the outgoing one for the same id.
C38_Witness ==
  /\ OneIncoming(requests[A], "R1")
  /\ OneIncoming(friendRequests[A], "R1")
  /\ OneIncoming(requests[Relay], "A1")
  /\ OneIncoming(friendRequests[Relay], "A1")

\* C39: when the payload sendDirect composes for a text reaches the open
\* and loaded personal chat of its target, the chat displays that text, also
\* when the text contains ':'.
C39_DirectTextKept ==
  [][\A m \in BagToSet(net) : \A messageText \in ColonTexts :
       (/\ OnPayloadReceived(m)
        /\ chat[m.dst].open
        /\ chat[m.dst].myPersistentId = PId(m.dst)
        /\ m.text = DirectMessage(PId(m.dst), messageText))
         => LET shown == chat'[m.dst].messages
            IN /\ Len(shown) = Len(chat[m.dst].messages) + 1
               /\ shown[Len(shown)].text = messageText]_vars

\* C40: at any time at most one retry timeout is pending per endpoint, the
\* one connectionRetryTimers holds for it, and right after the cleanup of the
\* hook no timeout is pending, no timer is stored and no attempt is counted.
C40_OneTimerPerEndpoint ==
  /\ [](\A d \in Devices, e \in Devices :
          /\ retryTimeouts[d][e] <= 1
          /\ retryTimeouts[d][e] = 1 => connectionRetryTimers[d][e] = "armed")
  /\ [][\A d \in Devices :
          Cleanup(d) => /\ retryTimeouts'[d] = NoTimeouts
                        /\ connectionRetryTimers'[d] = NoTimers
                        /\ connectionAttempts'[d] = NoAttempts]_vars

\* attemptConnection has run again for an endpoint, and one timeout is
\* pending for it
C40_Witness ==
  \E e \in Devices :
    /\ connectionAttempts[Relay][e] >= 2
    /\ retryTimeouts[Relay][e] = 1
    /\ connectionRetryTimers[Relay][e] = "armed"

====
